---- MODULE Spec2Model ----
(***************************************************************************)
(* A model of special-fx: a currency conversion service on top of the ECB  *)
(* reference-rate feeds.  The module models                                *)
(*   - the cache scheduler getEcbCacheTtl (src/src/ecb.ts),                *)
(*   - the feed parsers getEcbRates and getEcbHistoricalRates,             *)
(*   - the parameter validators of the routes,                             *)
(*   - the conversion arithmetic of the route handlers (src/src/index.ts), *)
(*   - the request flow through the response cache, the feed cache and the *)
(*     upstream feed.                                                      *)
(***************************************************************************)
EXTENDS Integers, Sequences, FiniteSets, TLC

VARIABLES
  tNow,        \* scheduler call: the argument `now`
  tLm,         \* scheduler call: the argument `lastModified`
  tCutoff,     \* scheduler call: cutoffAfterLastModified as the call computed it
  tTtl,        \* scheduler call: the value returned
  tPc,         \* scheduler call: "idle" before the call, "called" after it
  cData,       \* conversion: data.rates, the parsed daily rate table
  cFrom,       \* conversion: the validated fromCurrency
  cTo,         \* conversion: the validated toCurrency
  cAmount,     \* conversion: the validated amount
  cRates,      \* conversion: the rates object of a /:fromCurrency/latest response
  cRate,       \* conversion: the rate of a /:fromCurrency/:toCurrency/latest response
  cPc,         \* conversion: "idle", then "latest", "pair" or "historical"
  cSeries,     \* conversion: data.rates of the historical handler, the parsed series
  cHist,       \* conversion: the rates object of a historical response
  pFeed,       \* parser call: "daily" or "historical", the feed the payload is of
  pBody,       \* parser call: the payload
  pResult,     \* parser call: what the parser returned, or ParseError
  pPc,         \* parser call: "idle" before the call, "parsed" after it
  vUrl,        \* validator call: the route and the raw parameters of a request
  vOutcome,    \* validator call: "none", then "handler" or "400"
  clock,       \* the system clock: what new Date() returns
  clockAt,     \* the position of the clock in ClockTimes
  origin,      \* the HTTP response the ECB daily feed currently gives
  feedCache,   \* caches.default under the feed URLs
  respCache,   \* caches.default under the request URLs
  req          \* the requests: each one's place in its handler and its locals

ttlVars == <<tNow, tLm, tCutoff, tTtl, tPc>>
convVars == <<cData, cFrom, cTo, cAmount, cRates, cRate, cPc, cSeries, cHist>>
parseVars == <<pFeed, pBody, pResult, pPc>>
validVars == <<vUrl, vOutcome>>
sysVars == <<clock, clockAt, origin, feedCache, respCache, req>>

(***************************************************************************)
(* Instants.  A JavaScript Date is a count of milliseconds; an instant is  *)
(* kept here as whole seconds since 2024-03-25T00:00:00Z (a Monday) plus   *)
(* the milliseconds within the second.                                     *)
(***************************************************************************)
SecondsPerDay == 24 * 60 * 60

Instant(sec, msec) == [s |-> sec, ms |-> msec]

AtUtc(day, h, m, sec, msec) ==
  Instant(day * SecondsPerDay + h * 3600 + m * 60 + sec, msec)

\* Date comparison `a < b` (by valueOf, the millisecond count).
Before(a, b) == a.s < b.s \/ (a.s = b.s /\ a.ms < b.ms)

AddSeconds(a, n) == Instant(a.s + n, a.ms)

(***************************************************************************)
(* Europe/Berlin.  CET is UTC+1 and CEST is UTC+2; in 2024 CEST runs from  *)
(* Sunday 31 March 01:00 UTC to Sunday 27 October 01:00 UTC.               *)
(***************************************************************************)
DstStartDay == 31 - 25
DstEndDay == 7 + 30 + 31 + 30 + 31 + 31 + 30 + 26
DstStart == DstStartDay * SecondsPerDay + 3600
DstEnd == DstEndDay * SecondsPerDay + 3600

\* The UTC offset, in seconds, in force at the instant with second count sec.
BerlinOffset(sec) == IF sec >= DstStart /\ sec < DstEnd THEN 7200 ELSE 3600

\* new TZDate(date, "Europe/Berlin"): the local civil fields of an instant.
TZDate(t) ==
  LET loc == t.s + BerlinOffset(t.s)
  IN [day |-> loc \div SecondsPerDay, sec |-> loc % SecondsPerDay, ms |-> t.ms]

\* The instant of a local wall-clock time (one that exists exactly once).
FromLocal(day, secOfDay, msec) ==
  LET loc == day * SecondsPerDay + secOfDay
  IN IF BerlinOffset(loc - 7200) = 7200
       THEN Instant(loc - 7200, msec)
       ELSE Instant(loc - 3600, msec)

\* Date.prototype.getDay of a local day: 0 is Sunday, 6 is Saturday.
getDay(day) == (day + 1) % 7

isWeekend(day) == getDay(day) = 0 \/ getDay(day) = 6

(***************************************************************************)
(* date-fns addBusinessDays, on the local calendar day.                    *)
(***************************************************************************)
RECURSIVE StepBusinessDays(_, _)
StepBusinessDays(day, restDays) ==
  IF restDays = 0 THEN day
  ELSE LET next == day + 1
       IN StepBusinessDays(next, IF isWeekend(next) THEN restDays ELSE restDays - 1)

\* A variant that moves one business day further than asked.
addBusinessDaysAndOne(day, amount) == StepBusinessDays(day, amount + 1)

\* The plain next-day variant of the scheduler (date-fns add({days: 1})).
addDays(day, amount) == day + amount

addBusinessDays(day, amount) ==
  LET startedOnWeekend == isWeekend(day)
      fullWeeks == amount \div 5
      moved == StepBusinessDays(day + fullWeeks * 7, amount % 5)
  IN IF startedOnWeekend /\ isWeekend(moved) /\ amount # 0
       THEN IF getDay(moved) = 6 THEN moved - 1 ELSE moved - 2
       ELSE moved

(***************************************************************************)
(* date-fns differenceInSeconds: the millisecond difference divided by     *)
(* 1000 and truncated towards zero.                                        *)
(***************************************************************************)
WholeSecondsFrom(earlier, later) ==
  (later.s - earlier.s) - (IF later.ms < earlier.ms THEN 1 ELSE 0)

differenceInSeconds(laterDate, earlierDate) ==
  IF Before(laterDate, earlierDate)
    THEN 0 - WholeSecondsFrom(laterDate, earlierDate)
    ELSE WholeSecondsFrom(earlierDate, laterDate)

(***************************************************************************)
(* getEcbCacheTtl(now, lastModified).                                      *)
(***************************************************************************)
CutoffHour == 15
CutoffMinute == 50
ShortTtl == 60

\* A scheduler whose cutoff is 15:50 at the fixed offset of CET.
cutoffAtFixedOffset(lastModified) ==
  LET lastModifiedInCet == TZDate(lastModified)
      cutoffDay == addBusinessDays(lastModifiedInCet.day, 1)
  IN Instant(cutoffDay * SecondsPerDay + CutoffHour * 3600 + CutoffMinute * 60 - 3600, 0)

\* cutoffAfterLastModified: addBusinessDays(lastModifiedInCet, 1), then
\* setHours(15, 50, 0, 0) in local time.
cutoffAfterLastModified(lastModified) ==
  LET lastModifiedInCet == TZDate(lastModified)
      cutoffDay == addBusinessDays(lastModifiedInCet.day, 1)
  IN FromLocal(cutoffDay, CutoffHour * 3600 + CutoffMinute * 60, 0)

\* A scheduler that anchors the cutoff on now: the next 15:50 local time.
getEcbCacheTtlAnchoredOnNow(now, lastModified) ==
  LET nowInCet == TZDate(now)
      today == FromLocal(nowInCet.day, CutoffHour * 3600 + CutoffMinute * 60, 0)
      cutoff == IF Before(now, today) THEN today ELSE AddSeconds(today, SecondsPerDay)
  IN differenceInSeconds(cutoff, now)

\* A scheduler that reads the system clock in place of its argument `now`.
getEcbCacheTtlAmbientClock(now, lastModified) ==
  LET cutoff == cutoffAfterLastModified(lastModified)
  IN IF Before(clock, cutoff)
       THEN differenceInSeconds(cutoff, clock)
       ELSE ShortTtl

\* A scheduler whose fallback after the cutoff is five minutes.
getEcbCacheTtlFiveMinutes(now, lastModified) ==
  LET cutoff == cutoffAfterLastModified(lastModified)
  IN IF Before(now, cutoff)
       THEN differenceInSeconds(cutoff, now)
       ELSE 5 * ShortTtl

\* A scheduler that still treats the cutoff instant itself as fresh.
getEcbCacheTtlInclusive(now, lastModified) ==
  LET cutoff == cutoffAfterLastModified(lastModified)
  IN IF ~Before(cutoff, now)
       THEN differenceInSeconds(cutoff, now)
       ELSE ShortTtl

getEcbCacheTtl(now, lastModified) ==
  LET cutoff == cutoffAfterLastModified(lastModified)
  IN IF Before(now, cutoff)
       THEN differenceInSeconds(cutoff, now)
       ELSE ShortTtl

(***************************************************************************)
(* Numbers.  A JavaScript number is an IEEE 754 binary floating-point      *)
(* value.  The model keeps the format's structure (sign, significand of    *)
(* Precision bits, exponent up to MaxExponent, subnormals, signed          *)
(* infinities, NaN, round to nearest with ties to even) at a reduced       *)
(* precision and exponent range.  A finite value is m * 2^e.               *)
(***************************************************************************)
Precision == 11
MaxExponent == 20

RECURSIVE Pow2(_)
Pow2(n) == IF n <= 0 THEN 1 ELSE 2 * Pow2(n - 1)

RECURSIVE BitLen(_)
BitLen(n) == IF n = 0 THEN 0 ELSE 1 + BitLen(n \div 2)

Max(a, b) == IF a >= b THEN a ELSE b

\* The exponent e of the largest finite values and of the subnormals.
ExpHi == MaxExponent - (Precision - 1)
ExpLo == (1 - MaxExponent) - (Precision - 1)

NaN == [k |-> "nan"]
Undefined == [k |-> "undefined"]
Inf(neg) == [k |-> "inf", neg |-> neg]
Fin(neg, m, e) == [k |-> "fin", neg |-> neg, m |-> m, e |-> e]
Zero(neg) == Fin(neg, 0, 0)

\* The number nearest to M * 2^E (plus, with sticky, a nonzero amount below
\* the last bit of M): round to nearest, ties to even.
RoundPack(neg, M, E, sticky) ==
  IF M = 0 THEN Zero(neg)
  ELSE
    LET L == BitLen(M)
        targetE == Max(E + (L - Precision), ExpLo)
        shift == targetE - E
    IN IF shift <= 0 THEN
         IF targetE > ExpHi THEN Inf(neg) ELSE Fin(neg, M * Pow2(0 - shift), targetE)
       ELSE IF shift > L + 1 THEN Zero(neg)
       ELSE
         LET q == M \div Pow2(shift)
             r == M % Pow2(shift)
             half == Pow2(shift - 1)
             up == r > half \/ (r = half /\ (sticky \/ q % 2 = 1))
             m == IF up THEN q + 1 ELSE q
             carry == m = Pow2(Precision)
             mm == IF carry THEN Pow2(Precision - 1) ELSE m
             ee == IF carry THEN targetE + 1 ELSE targetE
         IN IF mm = 0 THEN Zero(neg)
            ELSE IF ee > ExpHi THEN Inf(neg)
            ELSE Fin(neg, mm, ee)

\* The number nearest to the ratio n / d of two positive integers.
FromRatio(neg, n, d) ==
  IF n = 0 THEN Zero(neg)
  ELSE
    LET k == Max(0, Precision + 2 + BitLen(d) - BitLen(n))
        N == n * Pow2(k)
    IN RoundPack(neg, N \div d, 0 - k, N % d # 0)

FromInt(n) == IF n < 0 THEN FromRatio(TRUE, 0 - n, 1) ELSE FromRatio(FALSE, n, 1)

One == FromInt(1)

\* ToNumber: undefined converts to NaN.
ToNumber(v) == IF v.k = "undefined" THEN NaN ELSE v

IsZero(v) == v.k = "fin" /\ v.m = 0

\* JavaScript a * b.
FMul(x, y) ==
  LET a == ToNumber(x)
      b == ToNumber(y)
  IN IF a.k = "nan" \/ b.k = "nan" THEN NaN
     ELSE IF a.k = "inf" \/ b.k = "inf" THEN
       IF IsZero(a) \/ IsZero(b) THEN NaN ELSE Inf(a.neg # b.neg)
     ELSE RoundPack(a.neg # b.neg, a.m * b.m, a.e + b.e, FALSE)

\* JavaScript a / b.
FDiv(x, y) ==
  LET a == ToNumber(x)
      b == ToNumber(y)
  IN IF a.k = "nan" \/ b.k = "nan" THEN NaN
     ELSE IF a.k = "inf" THEN (IF b.k = "inf" THEN NaN ELSE Inf(a.neg # b.neg))
     ELSE IF b.k = "inf" THEN Zero(a.neg # b.neg)
     ELSE IF IsZero(b) THEN (IF IsZero(a) THEN NaN ELSE Inf(a.neg # b.neg))
     ELSE IF IsZero(a) THEN Zero(a.neg # b.neg)
     ELSE
       LET k == Max(0, Precision + 2 + BitLen(b.m) - BitLen(a.m))
           N == a.m * Pow2(k)
       IN RoundPack(a.neg # b.neg, N \div b.m, (a.e - k) - b.e, N % b.m # 0)

\* ToBoolean of a rate: undefined, NaN, 0 and -0 are falsy.
Truthy(v) == v.k \in {"fin", "inf"} /\ ~IsZero(v)

\* JavaScript a === b on numbers: NaN equals nothing, 0 equals -0.
NumEq(a, b) ==
  /\ a.k \in {"fin", "inf"}
  /\ b.k \in {"fin", "inf"}
  /\ \/ a = b
     \/ (IsZero(a) /\ IsZero(b))

\* Whether v is a number other than NaN, Infinity and -Infinity.
IsFinite(v) == v.k = "fin"

(***************************************************************************)
(* Text that reaches Number(): a decimal numeral (digits / 10^scale, with  *)
(* a sign), the empty string, or text that is no numeral.                  *)
(***************************************************************************)
Dec(digits, scale) == [t |-> "dec", neg |-> FALSE, digits |-> digits, scale |-> scale]
NegDec(digits, scale) == [t |-> "dec", neg |-> TRUE, digits |-> digits, scale |-> scale]
EmptyText == [t |-> "empty"]
JunkText == [t |-> "junk"]

RECURSIVE Pow10(_)
Pow10(n) == IF n <= 0 THEN 1 ELSE 10 * Pow10(n - 1)

\* Number(text): the nearest number to a numeral, 0 for the empty string, NaN
\* for anything else.
Number(text) ==
  IF text.t = "dec" THEN FromRatio(text.neg, text.digits, Pow10(text.scale))
  ELSE IF text.t = "empty" THEN Zero(FALSE)
  ELSE NaN

(***************************************************************************)
(* Currency codes (src/src/ecb.ts, src/src/index.ts).                      *)
(***************************************************************************)
ecbCurrencyCodeSchema ==
  << "AUD", "BGN", "BRL", "CAD", "CHF", "CNY", "CZK", "DKK", "GBP", "HKD",
     "HUF", "IDR", "ILS", "INR", "ISK", "JPY", "KRW", "MXN", "MYR", "NOK",
     "NZD", "PHP", "PLN", "RON", "SEK", "SGD", "THB", "TRY", "USD", "ZAR" >>

ecbHistoricalCurrencyCodeSchema ==
  << "AUD", "BGN", "BRL", "CAD", "CHF", "CNY", "CYP", "CZK", "DKK", "EEK",
     "GBP", "HKD", "HRK", "HUF", "IDR", "ILS", "INR", "ISK", "JPY", "KRW",
     "LTL", "LVL", "MTL", "MXN", "MYR", "NOK", "NZD", "PHP", "PLN", "ROL",
     "RON", "RUB", "SEK", "SGD", "SIT", "SKK", "THB", "TRL", "TRY", "USD",
     "ZAR" >>

\* z.enum([...ecbCurrencyCodeSchema.options, "EUR"]) and its historical twin.
currencyCodeSchema == Append(ecbCurrencyCodeSchema, "EUR")
historicalCurrencyCodeSchema == Append(ecbHistoricalCurrencyCodeSchema, "EUR")

Range(seq) == { seq[i] : i \in 1 .. Len(seq) }

(***************************************************************************)
(* Objects keyed by currency code: a function from the keys present.       *)
(***************************************************************************)
EmptyObject == [c \in {} |-> NaN]

\* obj[key], undefined when the key is absent.
Get(obj, key) == IF key \in DOMAIN obj THEN obj[key] ELSE Undefined

\* obj[key] = value
Put(obj, key, value) ==
  [c \in (DOMAIN obj) \cup {key} |-> IF c = key THEN value ELSE obj[c]]

(***************************************************************************)
(* The feed parsers (getEcbRates, getEcbHistoricalRates).  A payload body  *)
(* is the tree the XML parser yields: a shape, and for each date its       *)
(* "@_time" and its list of cubes ("@_currency", "@_rate" as text).  The   *)
(* XML parser yields an array only for an element that occurs at least     *)
(* twice: a single element comes out as an object and no element as        *)
(* nothing, and neither passes z.array.                                    *)
(***************************************************************************)
Cube(currency, rate) == [currency |-> currency, rate |-> rate]

ParseError == [error |-> "parse"]

\* The place of a code in alphabetical order (localeCompare on codes).
CodeRank(code) ==
  IF code \in Range(historicalCurrencyCodeSchema)
    THEN CHOOSE i \in 1 .. Len(historicalCurrencyCodeSchema) :
           historicalCurrencyCodeSchema[i] = code
    ELSE 0

\* Array.prototype.sort by "@_currency": a stable sort.
RECURSIVE InsertCube(_, _)
InsertCube(sorted, cube) ==
  IF sorted = <<>> THEN <<cube>>
  ELSE IF CodeRank(sorted[Len(sorted)].currency) <= CodeRank(cube.currency)
    THEN Append(sorted, cube)
    ELSE Append(InsertCube(SubSeq(sorted, 1, Len(sorted) - 1), cube),
                sorted[Len(sorted)])

RECURSIVE SortCubes(_)
SortCubes(cubes) ==
  IF cubes = <<>> THEN <<>>
  ELSE InsertCube(SortCubes(SubSeq(cubes, 1, Len(cubes) - 1)), cubes[Len(cubes)])

\* Object.fromEntries of the sorted list, each rate through Number().
RECURSIVE FromEntries(_)
FromEntries(cubes) ==
  IF cubes = <<>> THEN EmptyObject
  ELSE Put(FromEntries(SubSeq(cubes, 1, Len(cubes) - 1)),
           cubes[Len(cubes)].currency, Number(cubes[Len(cubes)].rate))

\* ecbDailyDataSchema.parse, then the sorted rate list as an object.
ParseDaily(body) ==
  IF \/ body.shape # "daily"
     \/ ~body.timeIsDate
     \/ Len(body.cubes) < 2
     \/ \E i \in 1 .. Len(body.cubes) :
          body.cubes[i].currency \notin Range(ecbCurrencyCodeSchema)
    THEN ParseError
    ELSE [date |-> body.time, rates |-> FromEntries(SortCubes(body.cubes))]

\* One dated entry of the historical payload.
Day(time, cubes) == [time |-> time, cubes |-> cubes]

\* The dates the payloads use, in the order of localeCompare.
DateOrder == <<"2024-05-31", "2024-06-03", "2024-06-04">>

DateRank(date) ==
  IF date \in Range(DateOrder)
    THEN CHOOSE i \in 1 .. Len(DateOrder) : DateOrder[i] = date
    ELSE 0

\* Array.prototype.sort by b.date.localeCompare(a.date): newest first, and
\* entries of one date in the order they had.
RECURSIVE InsertDay(_, _)
InsertDay(sorted, entry) ==
  IF sorted = <<>> THEN <<entry>>
  ELSE IF DateRank(sorted[Len(sorted)].date) >= DateRank(entry.date)
    THEN Append(sorted, entry)
    ELSE Append(InsertDay(SubSeq(sorted, 1, Len(sorted) - 1), entry),
                sorted[Len(sorted)])

\* A parser that leaves the dated entries in the order of the payload.
KeepPayloadOrder(entries) == entries

RECURSIVE SortDays(_)
SortDays(entries) ==
  IF entries = <<>> THEN <<>>
  ELSE InsertDay(SortDays(SubSeq(entries, 1, Len(entries) - 1)),
                 entries[Len(entries)])

\* The historical schema on one dated entry.
DayIsValid(day) ==
  /\ Len(day.cubes) >= 2
  /\ \A i \in 1 .. Len(day.cubes) :
       day.cubes[i].currency \in Range(ecbHistoricalCurrencyCodeSchema)

\* A historical parser that leaves out the dated entries that fail the schema.
ParseHistoricalPerDay(body) ==
  IF body.shape # "historical" \/ Len(body.days) < 2
    THEN ParseError
    ELSE LET kept == SelectSeq(body.days, DayIsValid)
         IN [rates |-> SortDays([k \in 1 .. Len(kept) |->
                                   [date |-> kept[k].time,
                                    rates |-> FromEntries(SortCubes(kept[k].cubes))]])]

\* ecbHistoricalDataSchema.parse, then each date's sorted rate list as an
\* object, then the dates sorted newest first.
ParseHistorical(body) ==
  IF \/ body.shape # "historical"
     \/ Len(body.days) < 2
     \/ \E k \in 1 .. Len(body.days) : ~DayIsValid(body.days[k])
    THEN ParseError
    ELSE [rates |-> SortDays([k \in 1 .. Len(body.days) |->
                                [date |-> body.days[k].time,
                                 rates |-> FromEntries(SortCubes(body.days[k].cubes))]])]

(***************************************************************************)
(* The conversions of the route handlers (src/src/index.ts).               *)
(***************************************************************************)
NoAmount == [t |-> "absent"]

\* The query validator: amount is absent (the default 1 applies) or a string
\* whose Number() passes z.number(), which rejects NaN and the infinities.
AmountIsValid(param) == param = NoAmount \/ IsFinite(Number(param))

AmountOf(param) == IF param = NoAmount THEN One ELSE Number(param)

\* A consumer that takes the parsed table as it is.
WithoutEur(dataRates) == dataRates

\* { ...data.rates, EUR: 1 }
WithEur(dataRates) == Put(dataRates, "EUR", One)

\* for (const key of currencyCodeSchema.options) rates[key] /= baseRate
\* Each pass of the loop reads and writes the entry of its own key only, and
\* creates the entry (NaN, from undefined) when the key is absent.
DivideAll(rates, baseRate) ==
  [c \in (DOMAIN rates) \cup Range(currencyCodeSchema) |->
     IF c \in Range(currencyCodeSchema) THEN FDiv(Get(rates, c), baseRate)
     ELSE rates[c]]

\* for (const key of currencyCodeSchema.options) rates[key] *= amount
MultiplyAll(rates, amount) ==
  [c \in (DOMAIN rates) \cup Range(currencyCodeSchema) |->
     IF c \in Range(currencyCodeSchema) THEN FMul(Get(rates, c), amount)
     ELSE rates[c]]

\* The place of a key in currencyCodeSchema.options.
OptionIndex(code) ==
  CHOOSE i \in 1 .. Len(currencyCodeSchema) : currencyCodeSchema[i] = code

\* A rebase loop that reads the divisor rates[fromCurrency] from the object
\* it is rewriting: the keys after fromCurrency are divided by the entry the
\* loop has already rewritten.
DivideAllLive(rates, fromCurrency) ==
  LET baseRate == Get(rates, fromCurrency)
      rewritten == FDiv(baseRate, baseRate)
  IN [c \in (DOMAIN rates) \cup Range(currencyCodeSchema) |->
        IF c \notin Range(currencyCodeSchema) THEN rates[c]
        ELSE IF OptionIndex(c) <= OptionIndex(fromCurrency)
          THEN FDiv(Get(rates, c), baseRate)
          ELSE FDiv(Get(rates, c), rewritten)]

LatestRatesLiveBase(dataRates, fromCurrency, amount) ==
  MultiplyAll(DivideAllLive(WithEur(dataRates), fromCurrency), amount)

\* A rebase that scales by the amount before it divides by the base rate.
LatestRatesScaledFirst(dataRates, fromCurrency, amount) ==
  LET rates == WithEur(dataRates)
      baseRate == Get(rates, fromCurrency)
  IN DivideAll(MultiplyAll(rates, amount), baseRate)

\* A rebase whose loops run over the keys the table has.
LatestRatesOfListed(dataRates, fromCurrency, amount) ==
  LET rates == WithEur(dataRates)
      baseRate == Get(rates, fromCurrency)
  IN [c \in DOMAIN rates |-> FMul(FDiv(rates[c], baseRate), amount)]

\* GET /:fromCurrency/latest: the rates of the response.
LatestRates(dataRates, fromCurrency, amount) ==
  LET rates == WithEur(dataRates)
      baseRate == Get(rates, fromCurrency)
  IN MultiplyAll(DivideAll(rates, baseRate), amount)

\* A pairwise conversion that takes the target's anchor rate for the pair's.
PairRateFromAnchor(dataRates, fromCurrency, toCurrency, amount) ==
  FMul(Get(WithEur(dataRates), toCurrency), amount)

\* A pairwise conversion that scales by the amount before it divides.
PairRateScaledFirst(dataRates, fromCurrency, toCurrency, amount) ==
  LET rates == WithEur(dataRates)
  IN FDiv(FMul(Get(rates, toCurrency), amount), Get(rates, fromCurrency))

\* GET /:fromCurrency/:toCurrency/latest: the rate of the response.
PairRate(dataRates, fromCurrency, toCurrency, amount) ==
  LET rates == WithEur(dataRates)
  IN FMul(FDiv(Get(rates, toCurrency), Get(rates, fromCurrency)), amount)

\* The JavaScript value null.
Null == [k |-> "null"]

\* The property names of the elements of an array, in order.
IndexKey == <<"0", "1", "2">>

\* A response that gives the entries as an array of { date, rate } objects.
ArrayOfEntries(entries) ==
  [dates |-> SubSeq(IndexKey, 1, Len(entries)),
   rate |-> [i \in { IndexKey[k] : k \in 1 .. Len(entries) } |->
               LET at == CHOOSE k \in 1 .. Len(entries) : IndexKey[k] = i
               IN entries[at]]]

\* Object.fromEntries of [date, rate] pairs: the keys in the order of their
\* first entry, each with the value of its last entry.
RECURSIVE KeysOf(_)
KeysOf(entries) ==
  IF entries = <<>> THEN <<>>
  ELSE LET before == KeysOf(SubSeq(entries, 1, Len(entries) - 1))
           date == entries[Len(entries)].date
       IN IF date \in Range(before) THEN before ELSE Append(before, date)

ObjectFromEntries(entries) ==
  [dates |-> KeysOf(entries),
   rate |-> [d \in { entries[k].date : k \in 1 .. Len(entries) } |->
               LET last == CHOOSE k \in 1 .. Len(entries) :
                             /\ entries[k].date = d
                             /\ \A j \in (k + 1) .. Len(entries) : entries[j].date # d
               IN entries[last].rate]]

\* A historical conversion that computes the rate of every date, whatever the
\* two rates are.
HistoricalRateUnguarded(dayRates, fromCurrency, toCurrency, amount) ==
  LET rates == WithEur(dayRates)
  IN FMul(FDiv(Get(rates, toCurrency), Get(rates, fromCurrency)), amount)

\* rates[toCurrency] && rates[fromCurrency]
\*   ? (rates[toCurrency] / rates[fromCurrency]) * amount : null
HistoricalRate(dayRates, fromCurrency, toCurrency, amount) ==
  LET rates == WithEur(dayRates)
  IN IF Truthy(Get(rates, toCurrency)) /\ Truthy(Get(rates, fromCurrency))
       THEN FMul(FDiv(Get(rates, toCurrency), Get(rates, fromCurrency)), amount)
       ELSE Null

\* data.rates.map((dayData) => [dayData.date, rate])
HistoricalEntries(series, fromCurrency, toCurrency, amount) ==
  [k \in 1 .. Len(series) |->
     [date |-> series[k].date,
      rate |-> HistoricalRate(series[k].rates, fromCurrency, toCurrency, amount)]]

\* A historical handler that leaves out the dates that have no rate.
HistoricalRatesOmittingAbsent(series, fromCurrency, toCurrency, amount) ==
  ObjectFromEntries(
    SelectSeq(HistoricalEntries(series, fromCurrency, toCurrency, amount),
              LAMBDA entry : entry.rate # Null))

\* GET /:fromCurrency/:toCurrency/historical: the rates of the response.
HistoricalRates(series, fromCurrency, toCurrency, amount) ==
  ObjectFromEntries(HistoricalEntries(series, fromCurrency, toCurrency, amount))

(***************************************************************************)
(* The scheduler as a pure function: the specification SpecTtl draws the   *)
(* two arguments from sampled instants around both daylight-saving         *)
(* transitions and applies the function.                                   *)
(***************************************************************************)
MaxSpringDay == 9
MaxAutumnDay == 4
AutumnFirstDay == DstEndDay - 2

SampleDays ==
  (0 .. MaxSpringDay) \cup (AutumnFirstDay .. AutumnFirstDay + MaxAutumnDay)

\* Times of day (UTC) of a lastModified: Last-Modified has whole seconds.
LmSamples ==
  { AtUtc(d, hm[1], hm[2], 0, 0) :
      d \in SampleDays,
      hm \in {<<0, 30>>, <<12, 0>>, <<14, 30>>, <<22, 30>>, <<23, 30>>} }

\* Times of day (UTC) of now: around 15:50 local in CEST (13:50 UTC) and in
\* CET (14:50 UTC), and around local midnight.
NowSamples ==
  { AtUtc(d, x[1], x[2], x[3], x[4]) :
      d \in SampleDays,
      x \in { <<0, 30, 0, 0>>, <<10, 0, 0, 0>>,
              <<13, 49, 59, 500>>, <<13, 50, 0, 0>>,
              <<14, 49, 59, 500>>, <<14, 50, 0, 0>>,
              <<22, 30, 0, 0>> } }

NoInstant == Instant(0 - 1, 0)

\* The conversion variables while another specification runs.
ConvUnused ==
  /\ cData = EmptyObject
  /\ cFrom = "EUR"
  /\ cTo = "EUR"
  /\ cAmount = One
  /\ cRates = EmptyObject
  /\ cRate = Undefined
  /\ cPc = "unused"
  /\ cSeries = <<>>
  /\ cHist = ObjectFromEntries(<<>>)

\* The parser variables while another specification runs.
ParseUnused ==
  /\ pFeed = "none"
  /\ pBody = <<>>
  /\ pResult = <<>>
  /\ pPc = "unused"

\* The validator variables while another specification runs.
ValidUnused ==
  /\ vUrl = <<>>
  /\ vOutcome = "unused"

\* The request-flow variables while another specification runs.
SysUnused ==
  /\ clock = NoInstant
  /\ clockAt = 0
  /\ origin = [ok |-> FALSE]
  /\ feedCache = <<>>
  /\ respCache = <<>>
  /\ req = <<>>

\* What new Date() would return while the scheduler is called with its own
\* `now`: an instant before every sampled cutoff, one after every one.
AmbientClocks == { AtUtc(0, 10, 0, 0, 0), AtUtc(AutumnFirstDay + MaxAutumnDay, 22, 30, 0, 0) }

InitTtl ==
  /\ ConvUnused
  /\ clock \in AmbientClocks
  /\ clockAt = 0
  /\ origin = [ok |-> FALSE]
  /\ feedCache = <<>>
  /\ respCache = <<>>
  /\ req = <<>>
  /\ ParseUnused
  /\ ValidUnused
  /\ tNow \in NowSamples
  /\ tLm \in LmSamples
  /\ tCutoff = NoInstant
  /\ tTtl = 0
  /\ tPc = "idle"

\* One call getEcbCacheTtl(tNow, tLm).
TtlCall ==
  /\ tPc = "idle"
  /\ tCutoff' = cutoffAfterLastModified(tLm)
  /\ tTtl' = getEcbCacheTtl(tNow, tLm)
  /\ tPc' = "called"
  /\ UNCHANGED <<tNow, tLm, convVars, sysVars, parseVars, validVars>>

\* The clock advances and the caller is about to call again with the same
\* lastModified.
TtlAdvance ==
  /\ tPc = "called"
  /\ \E t \in NowSamples : Before(tNow, t) /\ t.s - tNow.s <= SecondsPerDay /\ tNow' = t
  /\ tPc' = "idle"
  /\ UNCHANGED <<tLm, tCutoff, tTtl, convVars, sysVars, parseVars, validVars>>

NextTtl == TtlCall \/ TtlAdvance

vars == <<ttlVars, convVars, sysVars, parseVars, validVars>>

SpecTtl == InitTtl /\ [][NextTtl]_vars

(***************************************************************************)
(* The conversions as pure functions: the specification SpecConv draws a   *)
(* parsed daily table, the validated request parameters and the amount,    *)
(* and applies the computation of one of the two latest handlers.          *)
(***************************************************************************)
DailyBody(cubes) ==
  [shape |-> "daily", time |-> "2024-06-04", timeIsDate |-> TRUE, cubes |-> cubes]

UsdRate == Dec(10847, 4)
GbpRate == Dec(8465, 4)

\* Daily payloads: two currencies only; four currencies; a zero rate; a rate
\* that is no numeral.
SampleDailyBodies ==
  { DailyBody(<<Cube("USD", UsdRate), Cube("GBP", GbpRate)>>),
    DailyBody(<<Cube("USD", UsdRate), Cube("JPY", Dec(16923, 2)),
                Cube("BGN", Dec(19558, 4)), Cube("GBP", GbpRate)>>),
    DailyBody(<<Cube("USD", Dec(0, 0)), Cube("GBP", GbpRate)>>),
    DailyBody(<<Cube("GBP", GbpRate), Cube("USD", JunkText)>>) }

\* Historical payloads: GBP absent on the older date; three dates out of
\* order, the oldest with a deprecated currency; zero rates; one date listed
\* twice; a rate that is no numeral.
HistoricalBody(days) == [shape |-> "historical", days |-> days]

SampleHistoricalBodies ==
  { HistoricalBody(<<Day("2024-06-04", <<Cube("USD", UsdRate), Cube("GBP", GbpRate)>>),
                     Day("2024-06-03", <<Cube("USD", Dec(109, 2)),
                                         Cube("JPY", Dec(16923, 2))>>)>>),
    HistoricalBody(<<Day("2024-05-31", <<Cube("USD", Dec(10852, 4)),
                                         Cube("GBP", Dec(8523, 4)),
                                         Cube("CYP", Dec(5842, 4))>>),
                     Day("2024-06-04", <<Cube("USD", UsdRate), Cube("GBP", GbpRate)>>),
                     Day("2024-06-03", <<Cube("GBP", Dec(8512, 4)),
                                         Cube("USD", Dec(109, 2))>>)>>),
    HistoricalBody(<<Day("2024-06-04", <<Cube("USD", Dec(0, 0)), Cube("GBP", GbpRate)>>),
                     Day("2024-06-03", <<Cube("USD", UsdRate), Cube("GBP", Dec(0, 0))>>)>>),
    HistoricalBody(<<Day("2024-06-04", <<Cube("USD", UsdRate), Cube("GBP", GbpRate)>>),
                     Day("2024-06-04", <<Cube("USD", Dec(109, 2)),
                                         Cube("JPY", Dec(16923, 2))>>)>>),
    HistoricalBody(<<Day("2024-06-04", <<Cube("USD", JunkText), Cube("GBP", GbpRate)>>),
                     Day("2024-06-03", <<Cube("USD", UsdRate), Cube("GBP", GbpRate)>>)>>) }

SampleCodes == {"USD", "GBP", "JPY", "BGN", "EUR", "CYP"}

SampleAmountParams ==
  { NoAmount, Dec(1, 0), Dec(100, 0), Dec(3, 0), Dec(5, 1), Dec(0, 0),
    NegDec(2, 0), EmptyText, JunkText }

\* The scheduler variables while another specification runs.
TtlUnused ==
  /\ tNow = NoInstant
  /\ tLm = NoInstant
  /\ tCutoff = NoInstant
  /\ tTtl = 0
  /\ tPc = "unused"

InitConv ==
  /\ TtlUnused
  /\ SysUnused
  /\ ParseUnused
  /\ ValidUnused
  /\ \E body \in SampleDailyBodies :
       /\ ParseDaily(body) # ParseError
       /\ cData = ParseDaily(body).rates
  /\ \E body \in SampleHistoricalBodies :
       /\ ParseHistorical(body) # ParseError
       /\ cSeries = ParseHistorical(body).rates
  /\ cFrom \in SampleCodes \cap Range(historicalCurrencyCodeSchema)
  /\ cTo \in SampleCodes \cap Range(historicalCurrencyCodeSchema)
  /\ \E param \in SampleAmountParams :
       /\ AmountIsValid(param)
       /\ cAmount = AmountOf(param)
  /\ cRates = EmptyObject
  /\ cRate = Undefined
  /\ cHist = ObjectFromEntries(<<>>)
  /\ cPc = "idle"

\* The computation of GET /:fromCurrency/latest, whose validator admits the
\* codes of currencyCodeSchema.
ConvLatest ==
  /\ cPc = "idle"
  /\ cFrom \in Range(currencyCodeSchema)
  /\ cRates' = LatestRates(cData, cFrom, cAmount)
  /\ cPc' = "latest"
  /\ UNCHANGED <<cData, cFrom, cTo, cAmount, cRate, cSeries, cHist, ttlVars, sysVars, parseVars, validVars>>

\* The computation of GET /:fromCurrency/:toCurrency/latest, whose validator
\* admits the codes of currencyCodeSchema.
ConvPair ==
  /\ cPc = "idle"
  /\ cFrom \in Range(currencyCodeSchema)
  /\ cTo \in Range(currencyCodeSchema)
  /\ cRate' = PairRate(cData, cFrom, cTo, cAmount)
  /\ cPc' = "pair"
  /\ UNCHANGED <<cData, cFrom, cTo, cAmount, cRates, cSeries, cHist, ttlVars, sysVars, parseVars, validVars>>

\* The computation of GET /:fromCurrency/:toCurrency/historical, whose
\* validator admits the codes of historicalCurrencyCodeSchema.
ConvHistorical ==
  /\ cPc = "idle"
  /\ cFrom \in Range(historicalCurrencyCodeSchema)
  /\ cTo \in Range(historicalCurrencyCodeSchema)
  /\ cHist' = HistoricalRates(cSeries, cFrom, cTo, cAmount)
  /\ cPc' = "historical"
  /\ UNCHANGED <<cData, cFrom, cTo, cAmount, cRates, cRate, cSeries, ttlVars, sysVars, parseVars, validVars>>

NextConv == ConvLatest \/ ConvPair \/ ConvHistorical

SpecConv == InitConv /\ [][NextConv]_vars

(***************************************************************************)
(* The request flow.  A request passes the validators, then runs its       *)
(* handler; the handler gives up control at each await, and there other    *)
(* requests, the clock and the origin may take a step.                     *)
(***************************************************************************)
MaxRequests == 2
ResponseTtlWithoutLastModified == 3600

Requests == 1 .. MaxRequests

\* --- the origin: the ECB daily feed ---
NoHeader == NoInstant

BodyTue ==
  [shape |-> "daily", time |-> "2024-03-26", timeIsDate |-> TRUE,
   cubes |-> <<Cube("USD", UsdRate), Cube("GBP", GbpRate)>>]

BodyWed ==
  [shape |-> "daily", time |-> "2024-03-27", timeIsDate |-> TRUE,
   cubes |-> <<Cube("USD", Dec(10811, 4)), Cube("JPY", Dec(16352, 2))>>]

BodyUnknownCode ==
  [shape |-> "daily", time |-> "2024-03-26", timeIsDate |-> TRUE,
   cubes |-> <<Cube("USD", UsdRate), Cube("XXX", GbpRate)>>]

OriginOk(lastModified, body) ==
  [ok |-> TRUE, reachable |-> TRUE, lastModified |-> lastModified, body |-> body]

\* The origin answers with a failure status.
OriginDown ==
  [ok |-> FALSE, reachable |-> TRUE, lastModified |-> NoHeader, body |-> BodyTue]

\* No answer comes: fetch rejects.
OriginUnreachable ==
  [ok |-> FALSE, reachable |-> FALSE, lastModified |-> NoHeader, body |-> BodyTue]

\* What the origin may answer: Tuesday's rates, published Tuesday 16:00 CET;
\* the same without a Last-Modified header; a failure status; no answer; Wednesday's
\* rates, published Wednesday 16:00 CET, which do not list GBP; a payload
\* with an unknown code.
SampleOrigins ==
  { OriginOk(AtUtc(1, 15, 0, 0, 0), BodyTue),
    OriginOk(NoHeader, BodyTue),
    OriginDown,
    OriginUnreachable,
    OriginOk(AtUtc(2, 15, 0, 0, 0), BodyWed),
    OriginOk(AtUtc(1, 15, 0, 0, 0), BodyUnknownCode) }

\* The origin never reports a publication that lies in the future.
OriginPossible(o, t) == o.lastModified = NoHeader \/ ~Before(t, o.lastModified)

\* --- the clock: Wednesday, around the 15:50 CET cutoff (14:50 UTC) ---
ClockTimes ==
  << AtUtc(2, 10, 0, 0, 0), AtUtc(2, 14, 50, 0, 0), AtUtc(2, 14, 50, 30, 0),
     AtUtc(2, 15, 2, 0, 0) >>

\* --- requests ---
Url(route, fromCurrency, toCurrency, amount) ==
  [route |-> route, fromCurrency |-> fromCurrency, toCurrency |-> toCurrency,
   amount |-> amount]

NoCurrency == "-"

SampleUrls ==
  { Url("latest", "USD", NoCurrency, NoAmount),
    Url("latest", "USD", NoCurrency, Dec(100, 0)),
    Url("pair", "USD", "GBP", NoAmount),
    Url("latest", "XXX", NoCurrency, NoAmount),
    Url("pair", "USD", "CYP", NoAmount),
    Url("latest", "USD", NoCurrency, JunkText) }

\* Validators that admit the codes of historicalCurrencyCodeSchema on every
\* route.
ParamsValidHistoricalCodes(url) ==
  /\ url.fromCurrency \in Range(historicalCurrencyCodeSchema)
  /\ url.route = "pair" => url.toCurrency \in Range(historicalCurrencyCodeSchema)

\* Validators that admit the codes of currencyCodeSchema on every route.
ParamsValidCurrentCodes(url) ==
  /\ url.fromCurrency \in Range(currencyCodeSchema)
  /\ url.route \in {"pair", "historical"} => url.toCurrency \in Range(currencyCodeSchema)

\* zValidator("param", ...) of a route: the latest routes take the codes of
\* currencyCodeSchema, the historical route those of
\* historicalCurrencyCodeSchema.
ParamsValid(url) ==
  IF url.route = "historical"
    THEN /\ url.fromCurrency \in Range(historicalCurrencyCodeSchema)
         /\ url.toCurrency \in Range(historicalCurrencyCodeSchema)
    ELSE /\ url.fromCurrency \in Range(currencyCodeSchema)
         /\ url.route = "pair" => url.toCurrency \in Range(currencyCodeSchema)

QueryValid(url) == AmountIsValid(url.amount)

\* --- caches.default ---
NoEntry == [empty |-> TRUE]

\* cache.put(key, response): the entry lives for the s-maxage of the response.
Entry(response, ttl, storedAt, writer) ==
  [empty |-> FALSE, response |-> response, ttl |-> ttl, storedAt |-> storedAt,
   writer |-> writer]

Fresh(entry, t) == ~entry.empty /\ Before(t, AddSeconds(entry.storedAt, entry.ttl))

\* cache.match(key): the stored response while it is fresh, else undefined.
Match(store, key, t) == IF Fresh(store[key], t) THEN store[key] ELSE NoEntry

\* A cache that hands out an entry whatever its age.
MatchIgnoringAge(store, key, t) == store[key]

\* The two feeds: eurofxref-daily.xml and eurofxref-hist.xml.
FeedUrls == {"daily", "historical"}
FeedUrl(url) == IF url.route = "historical" THEN "historical" ELSE "daily"

\* --- responses ---
\* JSON.stringify of a number: NaN and the infinities become null.
JsonNumber(v) ==
  IF v.k = "fin" THEN (IF v.m = 0 THEN Zero(FALSE) ELSE v) ELSE Null

JsonRates(rates) == [c \in DOMAIN rates |-> JsonNumber(rates[c])]

\* What a request has thrown: nothing; the Error of the feed client on a
\* failure status; the rejection of fetch; the ZodError of schema.parse.
NoError == [name |-> "none", message |-> ""]

FetchFailed(feedUrl) ==
  [name |-> "Error",
   message |-> IF feedUrl = "historical" THEN "Failed to fetch ECB historical rates"
               ELSE "Failed to fetch ECB rates"]

FetchRejected == [name |-> "TypeError", message |-> "fetch failed"]

ZodError == [name |-> "ZodError", message |-> "invalid input"]

ValidationError == [status |-> 400, body |-> "Validation Error"]
InternalError == [status |-> 500, body |-> "Internal Server Error"]
NoResponse == [status |-> 0]

\* toUTCString keeps whole seconds.
HttpDate(t) == Instant(t.s, 0)

\* A handler that gives every response the same hour.
ResponseTtlOneHour(t, lastModified) == ResponseTtlWithoutLastModified

\* data.lastModified ? getEcbCacheTtl(new Date(), data.lastModified) : 3600
ResponseTtl(t, lastModified) ==
  IF lastModified = NoHeader THEN ResponseTtlWithoutLastModified
  ELSE getEcbCacheTtl(t, lastModified)

\* The JSON body of a latest response.
LatestBody(url, data) ==
  IF url.route = "latest"
    THEN [from |-> url.fromCurrency, date |-> data.date,
          rates |-> JsonRates(LatestRates(data.rates, url.fromCurrency,
                                          AmountOf(url.amount)))]
    ELSE [from |-> url.fromCurrency, to |-> url.toCurrency, date |-> data.date,
          rate |-> JsonNumber(PairRate(data.rates, url.fromCurrency,
                                       url.toCurrency, AmountOf(url.amount)))]

\* The response of a latest handler, with Cache-Control and Last-Modified.
OkResponse(url, data, lastModified, t) ==
  [status |-> 200, body |-> LatestBody(url, data),
   maxAge |-> ResponseTtl(t, lastModified),
   lastModified |-> IF lastModified = NoHeader THEN HttpDate(t) ELSE lastModified]

\* --- the state of one request ---
NoUrl == Url("none", NoCurrency, NoCurrency, NoAmount)
NoRes == [body |-> "none", lastModified |-> NoHeader]

NewRequest ==
  [pc |-> "new", url |-> NoUrl, found |-> NoEntry, feedFound |-> NoEntry,
   res |-> NoRes, cacheTtl |-> 0, response |-> NoResponse, thrown |-> NoError,
   log |-> <<>>]

InitSys ==
  /\ clockAt = 1
  /\ clock = ClockTimes[1]
  /\ origin \in { o \in SampleOrigins : OriginPossible(o, ClockTimes[1]) }
  /\ feedCache = [u \in FeedUrls |-> NoEntry]
  /\ respCache = [u \in SampleUrls |-> NoEntry]
  /\ req = [i \in Requests |-> NewRequest]

Init ==
  /\ TtlUnused
  /\ ConvUnused
  /\ ParseUnused
  /\ ValidUnused
  /\ InitSys

\* The log of a request has the event.
Has(log, event) == \E k \in 1 .. Len(log) : log[k] = event

Log(i, events) == req[i].log \o events

\* A request arrives and passes through the two validators.
Receive(i) ==
  /\ req[i].pc = "new"
  /\ i > 1 => req[i - 1].pc # "new"
  /\ \E url \in SampleUrls :
       req' = [req EXCEPT ![i] =
                 IF ParamsValid(url) /\ QueryValid(url)
                   THEN [@ EXCEPT !.url = url, !.pc = "match"]
                   ELSE [@ EXCEPT !.url = url, !.pc = "done",
                                  !.response = ValidationError]]
  /\ UNCHANGED <<clock, clockAt, origin, feedCache, respCache, ttlVars, convVars, parseVars, validVars>>

\* A handler that goes on to the feed although the cache answered.
AfterHandlerMatchRevalidating(r, cachedResponse) ==
  [r EXCEPT !.found = cachedResponse, !.pc = "feedMatch",
            !.log = r.log \o <<"respMatch">>]

\* if (cachedResponse) { return cachedResponse; }
AfterHandlerMatch(r, cachedResponse) ==
  IF ~cachedResponse.empty
    THEN [r EXCEPT !.found = cachedResponse, !.pc = "done",
                   !.response = cachedResponse.response,
                   !.log = r.log \o <<"respMatch">>]
    ELSE [r EXCEPT !.pc = "feedMatch", !.log = r.log \o <<"respMatch">>]

\* A handler whose cache key leaves out the query string.
HandlerMatchIgnoringQuery(i) ==
  /\ req[i].pc = "match"
  /\ req' = [req EXCEPT ![i] =
               AfterHandlerMatch(@, Match(respCache,
                                          [req[i].url EXCEPT !.amount = NoAmount],
                                          clock))]
  /\ UNCHANGED <<clock, clockAt, origin, feedCache, respCache, ttlVars, convVars, parseVars, validVars>>

\* await caches.default.match(c.req.raw), and the return on a hit.
HandlerMatch(i) ==
  /\ req[i].pc = "match"
  /\ req' = [req EXCEPT ![i] =
               AfterHandlerMatch(@, Match(respCache, req[i].url, clock))]
  /\ UNCHANGED <<clock, clockAt, origin, feedCache, respCache, ttlVars, convVars, parseVars, validVars>>

\* ecbRatesCached: await caches.default.match(requestUrl), and the return on
\* a hit.
FeedMatch(i) ==
  /\ req[i].pc = "feedMatch"
  /\ LET cacheRes == Match(feedCache, FeedUrl(req[i].url), clock)
     IN req' = [req EXCEPT ![i] =
                  IF ~cacheRes.empty
                    THEN [@ EXCEPT !.feedFound = cacheRes, !.pc = "parse",
                                   !.res = cacheRes.response,
                                   !.log = Log(i, <<"feedMatch">>)]
                    ELSE [@ EXCEPT !.pc = "fetch",
                                   !.log = Log(i, <<"feedMatch">>)]]
  /\ UNCHANGED <<clock, clockAt, origin, feedCache, respCache, ttlVars, convVars, parseVars, validVars>>

\* A feed client that fetches again when the origin did not answer with
\* success.
AfterFetchRetrying(r, o, t) ==
  IF ~o.reachable \/ ~o.ok
    THEN [r EXCEPT !.log = r.log \o <<"fetch">>]
    ELSE [r EXCEPT !.pc = "feedPut",
                   !.res = [body |-> o.body, lastModified |-> o.lastModified],
                   !.cacheTtl =
                      getEcbCacheTtl(t, IF o.lastModified = NoHeader
                                          THEN t ELSE o.lastModified),
                   !.log = r.log \o <<"fetch", "ttl">>]

\* const res = await fetch(requestUrl); if (!res.ok) { throw ... }; then the
\* TTL from the Last-Modified header, or from now.  Nothing catches what is
\* thrown: the framework answers 500.
AfterFetch(r, o, t) ==
  IF ~o.reachable
    THEN [r EXCEPT !.pc = "done", !.thrown = FetchRejected,
                   !.response = InternalError, !.log = r.log \o <<"fetch">>]
  ELSE IF ~o.ok
    THEN [r EXCEPT !.pc = "done", !.thrown = FetchFailed(FeedUrl(r.url)),
                   !.response = InternalError, !.log = r.log \o <<"fetch">>]
    ELSE [r EXCEPT !.pc = "feedPut",
                   !.res = [body |-> o.body, lastModified |-> o.lastModified],
                   !.cacheTtl =
                      getEcbCacheTtl(t, IF o.lastModified = NoHeader
                                          THEN t ELSE o.lastModified),
                   !.log = r.log \o <<"fetch", "ttl">>]

\* ecbRatesCached: await fetch(requestUrl), up to the next await.
Fetch(i) ==
  /\ req[i].pc = "fetch"
  /\ req' = [req EXCEPT ![i] = AfterFetch(@, origin, clock)]
  /\ UNCHANGED <<clock, clockAt, origin, feedCache, respCache, ttlVars, convVars, parseVars, validVars>>

\* A feed client that writes the entry and then reads it back from the cache.
FeedPutThenReread(i) ==
  /\ req[i].pc = "feedPut"
  /\ feedCache' = [feedCache EXCEPT ![FeedUrl(req[i].url)] =
                     Entry(req[i].res, req[i].cacheTtl, clock, i)]
  /\ req' = [req EXCEPT ![i] = [@ EXCEPT !.pc = "feedMatch",
                                         !.log = Log(i, <<"feedPut">>)]]
  /\ UNCHANGED <<clock, clockAt, origin, respCache, ttlVars, convVars, parseVars, validVars>>

\* ecbRatesCached: await caches.default.put(requestUrl, response.clone()).
FeedPut(i) ==
  /\ req[i].pc = "feedPut"
  /\ feedCache' = [feedCache EXCEPT ![FeedUrl(req[i].url)] =
                     Entry(req[i].res, req[i].cacheTtl, clock, i)]
  /\ req' = [req EXCEPT ![i] = [@ EXCEPT !.pc = "parse",
                                         !.log = Log(i, <<"feedPut">>)]]
  /\ UNCHANGED <<clock, clockAt, origin, respCache, ttlVars, convVars, parseVars, validVars>>

\* A handler that catches the error of the parse and caches its answer.
ParseCachingFailure(i) ==
  /\ req[i].pc = "parse"
  /\ LET data == ParseDaily(req[i].res.body)
     IN req' = [req EXCEPT ![i] =
                  IF data = ParseError
                    THEN [@ EXCEPT !.pc = "respPut", !.thrown = ZodError,
                                   !.response = [status |-> 500,
                                                 body |-> "Internal Server Error",
                                                 maxAge |-> ShortTtl,
                                                 lastModified |-> NoHeader],
                                   !.log = Log(i, <<"parse">>)]
                    ELSE [@ EXCEPT !.pc = "respPut",
                                   !.response = OkResponse(req[i].url, data,
                                                  req[i].res.lastModified, clock),
                                   !.log = Log(i, <<"parse", "convert", "ttl">>)]]
  /\ UNCHANGED <<clock, clockAt, origin, feedCache, respCache, ttlVars, convVars, parseVars, validVars>>

\* getEcbRates: await res.text(), the parse, and the handler up to its next
\* await: the conversion, the response and its TTL.
Parse(i) ==
  /\ req[i].pc = "parse"
  /\ LET data == ParseDaily(req[i].res.body)
     IN req' = [req EXCEPT ![i] =
                  IF data = ParseError
                    THEN [@ EXCEPT !.pc = "done", !.thrown = ZodError,
                                   !.response = InternalError,
                                   !.log = Log(i, <<"parse">>)]
                    ELSE [@ EXCEPT !.pc = "respPut",
                                   !.response = OkResponse(req[i].url, data,
                                                  req[i].res.lastModified, clock),
                                   !.log = Log(i, <<"parse", "convert", "ttl">>)]]
  /\ UNCHANGED <<clock, clockAt, origin, feedCache, respCache, ttlVars, convVars, parseVars, validVars>>

\* A cache whose put leaves an entry that is already there.
RespPutFirstWriterWins(i) ==
  /\ req[i].pc = "respPut"
  /\ respCache' = [respCache EXCEPT ![req[i].url] =
                     IF @.empty
                       THEN Entry(req[i].response, req[i].response.maxAge, clock, i)
                       ELSE @]
  /\ req' = [req EXCEPT ![i] = [@ EXCEPT !.pc = "done",
                                         !.log = Log(i, <<"respPut">>)]]
  /\ UNCHANGED <<clock, clockAt, origin, feedCache, ttlVars, convVars, parseVars, validVars>>

\* await caches.default.put(c.req.raw, response.clone()), and the return.
RespPut(i) ==
  /\ req[i].pc = "respPut"
  /\ respCache' = [respCache EXCEPT ![req[i].url] =
                     Entry(req[i].response, req[i].response.maxAge, clock, i)]
  /\ req' = [req EXCEPT ![i] = [@ EXCEPT !.pc = "done",
                                         !.log = Log(i, <<"respPut">>)]]
  /\ UNCHANGED <<clock, clockAt, origin, feedCache, ttlVars, convVars, parseVars, validVars>>

\* Time passes.
Tick ==
  /\ clockAt < Len(ClockTimes)
  /\ clockAt' = clockAt + 1
  /\ clock' = ClockTimes[clockAt + 1]
  /\ UNCHANGED <<origin, feedCache, respCache, req, ttlVars, convVars, parseVars, validVars>>

\* The origin publishes: it starts to answer with a newer dataset.
OriginPublish ==
  /\ \E o \in SampleOrigins :
       /\ o.ok
       /\ o.lastModified # NoHeader
       /\ ~Before(clock, o.lastModified)
       /\ origin.lastModified = NoHeader \/ Before(origin.lastModified, o.lastModified)
       /\ origin' = o
  /\ UNCHANGED <<clock, clockAt, feedCache, respCache, req, ttlVars, convVars, parseVars, validVars>>

Next ==
  \/ \E i \in Requests : Receive(i)
  \/ \E i \in Requests : HandlerMatch(i)
  \/ \E i \in Requests : FeedMatch(i)
  \/ \E i \in Requests : Fetch(i)
  \/ \E i \in Requests : FeedPut(i)
  \/ \E i \in Requests : Parse(i)
  \/ \E i \in Requests : RespPut(i)
  \/ Tick
  \/ OriginPublish

Spec == Init /\ [][Next]_vars

(***************************************************************************)
(* The parsers as pure functions: the specification SpecParse draws a      *)
(* payload of one of the two feeds and applies the feed's parser.          *)
(***************************************************************************)
MaxCubes == 3
MaxDays == 3

\* Cubes of a payload: rates as decimal text; a second rate for USD; a code
\* of no enumeration; a deprecated code; the anchor; a zero rate; a rate
\* that is no numeral; a negative rate.
SampleCubes ==
  { Cube("USD", UsdRate), Cube("USD", Dec(109, 2)), Cube("GBP", GbpRate),
    Cube("XXX", Dec(5, 1)), Cube("CYP", Dec(5842, 4)), Cube("EUR", Dec(1, 0)),
    Cube("JPY", Dec(0, 0)), Cube("GBP", JunkText), Cube("JPY", NegDec(16923, 2)) }

SeqsUpTo(S, n) == UNION { [1 .. k -> S] : k \in 0 .. n }

\* Daily payloads: every list of up to MaxCubes sample cubes under a date,
\* a payload whose "@_time" is no date, and a payload of another shape.
ParseDailyBodies ==
  { DailyBody(cubes) : cubes \in SeqsUpTo(SampleCubes, MaxCubes) }
    \cup { [shape |-> "daily", time |-> "yesterday", timeIsDate |-> FALSE,
            cubes |-> <<Cube("USD", UsdRate), Cube("GBP", GbpRate)>>],
           [shape |-> "other", time |-> "2024-06-04", timeIsDate |-> TRUE,
            cubes |-> <<Cube("USD", UsdRate), Cube("GBP", GbpRate)>>] }

\* The cube lists of one date of a historical payload.
SampleDayCubes ==
  { <<Cube("USD", UsdRate), Cube("GBP", GbpRate)>>,
    <<Cube("GBP", Dec(8512, 4)), Cube("USD", Dec(109, 2))>>,
    <<Cube("USD", UsdRate), Cube("CYP", Dec(5842, 4))>>,
    <<Cube("USD", UsdRate), Cube("XXX", Dec(5, 1))>>,
    <<Cube("USD", Dec(0, 0)), Cube("GBP", JunkText)>>,
    <<Cube("USD", UsdRate), Cube("USD", Dec(109, 2))>>,
    <<Cube("USD", UsdRate)>> }

SampleDatedEntries ==
  { Day(DateOrder[d], cubes) : d \in 1 .. Len(DateOrder), cubes \in SampleDayCubes }

\* Historical payloads: every list of one to MaxDays sample dates, and a
\* payload of another shape.
ParseHistoricalBodies ==
  { HistoricalBody(days) : days \in SeqsUpTo(SampleDatedEntries, MaxDays) \ {<<>>} }
    \cup { [shape |-> "other",
            days |-> <<Day("2024-06-04", <<Cube("USD", UsdRate), Cube("GBP", GbpRate)>>),
                       Day("2024-06-03", <<Cube("USD", UsdRate), Cube("GBP", GbpRate)>>)>>] }

NoResult == [error |-> "none"]

InitParse ==
  /\ TtlUnused
  /\ ConvUnused
  /\ SysUnused
  /\ ValidUnused
  /\ \/ pFeed = "daily" /\ pBody \in ParseDailyBodies
     \/ pFeed = "historical" /\ pBody \in ParseHistoricalBodies
  /\ pResult = NoResult
  /\ pPc = "idle"

\* getEcbRates on the payload.
ParseDailyFeed ==
  /\ pPc = "idle"
  /\ pFeed = "daily"
  /\ pResult' = ParseDaily(pBody)
  /\ pPc' = "parsed"
  /\ UNCHANGED <<pFeed, pBody, ttlVars, convVars, sysVars, validVars>>

\* getEcbHistoricalRates on the payload.
ParseHistoricalFeed ==
  /\ pPc = "idle"
  /\ pFeed = "historical"
  /\ pResult' = ParseHistorical(pBody)
  /\ pPc' = "parsed"
  /\ UNCHANGED <<pFeed, pBody, ttlVars, convVars, sysVars, validVars>>

NextParse == ParseDailyFeed \/ ParseHistoricalFeed

SpecParse == InitParse /\ [][NextParse]_vars

(***************************************************************************)
(* The validators as pure functions: the specification SpecValid draws a   *)
(* route, raw path parameters and a raw amount, and runs the route's two   *)
(* validators.                                                             *)
(***************************************************************************)
\* The keys of currencyInformation, the codes GET /currencies lists.
currencyInformation ==
  { "AUD", "BGN", "BRL", "CAD", "CHF", "CNY", "CZK", "DKK", "GBP", "HKD",
    "HUF", "IDR", "ILS", "INR", "ISK", "JPY", "KRW", "MXN", "MYR", "NOK",
    "NZD", "PHP", "PLN", "RON", "SEK", "SGD", "THB", "TRY", "USD", "ZAR",
    "EUR" }

\* Raw path parameters: every code of either enumeration, and texts that
\* are no code.
RawCodes == Range(historicalCurrencyCodeSchema) \cup {"XXX", "usd", "EURO"}

RawAmounts == {NoAmount, Dec(100, 0), JunkText}

RawUrls ==
  { Url("latest", f, NoCurrency, a) : f \in RawCodes, a \in RawAmounts }
    \cup { Url(r, ft[1], ft[2], a) :
             r \in {"pair", "historical"}, ft \in RawCodes \X RawCodes,
             a \in RawAmounts }

InitValid ==
  /\ TtlUnused
  /\ ConvUnused
  /\ SysUnused
  /\ ParseUnused
  /\ vUrl \in RawUrls
  /\ vOutcome = "none"

\* The validators of the route: on a failure the hook answers 400 and the
\* handler does not run.
Validate ==
  /\ vOutcome = "none"
  /\ vOutcome' = IF ParamsValid(vUrl) /\ QueryValid(vUrl) THEN "handler" ELSE "400"
  /\ UNCHANGED <<vUrl, ttlVars, convVars, sysVars, parseVars>>

NextValid == Validate

SpecValid == InitValid /\ [][NextValid]_vars

(***************************************************************************)
(* The request flow of the two other routes: GET /currencies, which has no *)
(* validator and no feed, and GET /:fromCurrency/:toCurrency/historical,   *)
(* which reads the historical feed.  Here the origin is that of the        *)
(* historical feed.                                                        *)
(***************************************************************************)
CurrenciesTtl == 24 * 60 * 60

HistoricalThreeDays ==
  HistoricalBody(<<Day("2024-06-03", <<Cube("USD", Dec(109, 2)), Cube("GBP", Dec(8512, 4))>>),
                   Day("2024-06-04", <<Cube("USD", UsdRate), Cube("GBP", GbpRate)>>),
                   Day("2024-05-31", <<Cube("USD", Dec(10852, 4)),
                                       Cube("CYP", Dec(5842, 4))>>)>>)

HistoricalUnknownCode ==
  HistoricalBody(<<Day("2024-06-04", <<Cube("USD", UsdRate), Cube("GBP", GbpRate)>>),
                   Day("2024-06-03", <<Cube("USD", Dec(109, 2)), Cube("XXX", GbpRate)>>)>>)

\* What the origin of the historical feed may answer: three days, published
\* Tuesday 16:00 CET; the same without a Last-Modified header; a failure
\* status; a payload with an unknown code.
SampleHistoricalOrigins ==
  { OriginOk(AtUtc(1, 15, 0, 0, 0), HistoricalThreeDays),
    OriginOk(NoHeader, HistoricalThreeDays),
    OriginDown,
    OriginOk(AtUtc(1, 15, 0, 0, 0), HistoricalUnknownCode) }

CurrenciesUrl == Url("currencies", NoCurrency, NoCurrency, NoAmount)

RouteUrls ==
  { CurrenciesUrl,
    Url("historical", "USD", "EUR", NoAmount),
    Url("historical", "USD", "EUR", Dec(100, 0)),
    Url("historical", "CYP", "GBP", NoAmount),
    Url("historical", "XXX", "EUR", NoAmount) }

\* JSON.stringify of the rates of a historical response.
JsonHistoricalRates(rates) ==
  [dates |-> rates.dates,
   rate |-> [d \in DOMAIN rates.rate |->
               IF rates.rate[d] = Null THEN Null ELSE JsonNumber(rates.rate[d])]]

\* The JSON body of a historical response.
HistoricalResponseBody(url, data) ==
  [from |-> url.fromCurrency, to |-> url.toCurrency,
   rates |-> JsonHistoricalRates(HistoricalRates(data.rates, url.fromCurrency,
                                                 url.toCurrency, AmountOf(url.amount)))]

\* A historical handler that caches every response for a day.
HistoricalResponseForOneDay(url, data, lastModified, t) ==
  [status |-> 200, body |-> HistoricalResponseBody(url, data),
   maxAge |-> CurrenciesTtl,
   lastModified |-> IF lastModified = NoHeader THEN HttpDate(t) ELSE lastModified]

\* The response of the historical handler, with Cache-Control and
\* Last-Modified.
HistoricalResponse(url, data, lastModified, t) ==
  [status |-> 200, body |-> HistoricalResponseBody(url, data),
   maxAge |-> ResponseTtl(t, lastModified),
   lastModified |-> IF lastModified = NoHeader THEN HttpDate(t) ELSE lastModified]

\* A /currencies handler that caches its response for an hour.
CurrenciesResponseForOneHour ==
  [status |-> 200, body |-> currencyInformation,
   maxAge |-> ResponseTtlWithoutLastModified, lastModified |-> NoHeader]

\* c.json(currencyInformation) with Cache-Control; no Last-Modified is set.
CurrenciesResponse ==
  [status |-> 200, body |-> currencyInformation, maxAge |-> CurrenciesTtl,
   lastModified |-> NoHeader]

InitRoutes ==
  /\ TtlUnused
  /\ ConvUnused
  /\ ParseUnused
  /\ ValidUnused
  /\ clockAt = 1
  /\ clock = ClockTimes[1]
  /\ origin \in { o \in SampleHistoricalOrigins : OriginPossible(o, ClockTimes[1]) }
  /\ feedCache = [u \in FeedUrls |-> NoEntry]
  /\ respCache = [u \in RouteUrls |-> NoEntry]
  /\ req = [i \in Requests |-> NewRequest]

\* A request arrives: /currencies goes to its handler at once, a historical
\* request passes through the two validators.
ReceiveRoute(i) ==
  /\ req[i].pc = "new"
  /\ i > 1 => req[i - 1].pc # "new"
  /\ \E url \in RouteUrls :
       req' = [req EXCEPT ![i] =
                 IF url.route = "currencies"
                   THEN [@ EXCEPT !.url = url, !.pc = "currencies"]
                 ELSE IF ParamsValid(url) /\ QueryValid(url)
                   THEN [@ EXCEPT !.url = url, !.pc = "match"]
                   ELSE [@ EXCEPT !.url = url, !.pc = "done",
                                  !.response = ValidationError]]
  /\ UNCHANGED <<clock, clockAt, origin, feedCache, respCache, ttlVars, convVars, parseVars, validVars>>

\* GET /currencies: await caches.default.match(c.req.raw), the return on a
\* hit, and on a miss the response, up to the put.
CurrenciesMatch(i) ==
  /\ req[i].pc = "currencies"
  /\ LET cachedResponse == Match(respCache, req[i].url, clock)
     IN req' = [req EXCEPT ![i] =
                  IF ~cachedResponse.empty
                    THEN [@ EXCEPT !.found = cachedResponse, !.pc = "done",
                                   !.response = cachedResponse.response,
                                   !.log = Log(i, <<"respMatch">>)]
                    ELSE [@ EXCEPT !.pc = "respPut",
                                   !.response = CurrenciesResponse,
                                   !.log = Log(i, <<"respMatch">>)]]
  /\ UNCHANGED <<clock, clockAt, origin, feedCache, respCache, ttlVars, convVars, parseVars, validVars>>

\* getEcbHistoricalRates: await res.text(), the parse, and the handler up to
\* its next await: the rate of every date, the response and its TTL.
HistoricalParse(i) ==
  /\ req[i].pc = "parse"
  /\ LET data == ParseHistorical(req[i].res.body)
     IN req' = [req EXCEPT ![i] =
                  IF data = ParseError
                    THEN [@ EXCEPT !.pc = "done", !.thrown = ZodError,
                                   !.response = InternalError,
                                   !.log = Log(i, <<"parse">>)]
                    ELSE [@ EXCEPT !.pc = "respPut",
                                   !.response = HistoricalResponse(req[i].url, data,
                                                  req[i].res.lastModified, clock),
                                   !.log = Log(i, <<"parse", "convert", "ttl">>)]]
  /\ UNCHANGED <<clock, clockAt, origin, feedCache, respCache, ttlVars, convVars, parseVars, validVars>>

NextRoutes ==
  \/ \E i \in Requests : ReceiveRoute(i)
  \/ \E i \in Requests : CurrenciesMatch(i)
  \/ \E i \in Requests : HandlerMatch(i)
  \/ \E i \in Requests : FeedMatch(i)
  \/ \E i \in Requests : Fetch(i)
  \/ \E i \in Requests : FeedPut(i)
  \/ \E i \in Requests : HistoricalParse(i)
  \/ \E i \in Requests : RespPut(i)
  \/ Tick

SpecRoutes == InitRoutes /\ [][NextRoutes]_vars

(***************************************************************************)
(* The request flow around a publication.  The daily feed reports          *)
(* Last-Modified; it gives Tuesday's rates until Wednesday 16:00 CET and   *)
(* Wednesday's from then on.  The clock has readings before the cutoff of  *)
(* Tuesday's rates (Wednesday 15:50 CET), between the cutoff and the       *)
(* publication, and up to just over two minutes after the publication.  A  *)
(* request that is between two awaits while the clock advances notes it,   *)
(* once, at the head of its log.                                           *)
(***************************************************************************)
MaxStaleRequests == 2

StaleRequests == 1 .. MaxStaleRequests

Publication == AtUtc(2, 15, 0, 0, 0)

OriginBefore == OriginOk(AtUtc(1, 15, 0, 0, 0), BodyTue)
OriginAfter == OriginOk(Publication, BodyWed)

OriginAt(t) == IF Before(t, Publication) THEN OriginBefore ELSE OriginAfter

StaleClockTimes ==
  << AtUtc(2, 14, 40, 0, 0), AtUtc(2, 14, 59, 30, 0), Publication,
     AtUtc(2, 15, 0, 29, 0), AtUtc(2, 15, 1, 28, 0), AtUtc(2, 15, 2, 1, 0) >>

StaleUrls ==
  { Url("latest", "USD", NoCurrency, NoAmount),
    Url("latest", "USD", NoCurrency, Dec(100, 0)) }

InitStale ==
  /\ TtlUnused
  /\ ConvUnused
  /\ ParseUnused
  /\ ValidUnused
  /\ clockAt = 1
  /\ clock = StaleClockTimes[1]
  /\ origin = OriginAt(StaleClockTimes[1])
  /\ feedCache = [u \in FeedUrls |-> NoEntry]
  /\ respCache = [u \in StaleUrls |-> NoEntry]
  /\ req = [i \in StaleRequests |-> NewRequest]

\* A request arrives and passes through the two validators; at most two
\* requests are under way at a time.
ReceiveStale(i) ==
  /\ req[i].pc = "new"
  /\ i > 1 => req[i - 1].pc # "new"
  /\ i > 2 => req[i - 2].pc = "done"
  /\ \E url \in StaleUrls :
       req' = [req EXCEPT ![i] =
                 IF ParamsValid(url) /\ QueryValid(url)
                   THEN [@ EXCEPT !.url = url, !.pc = "match"]
                   ELSE [@ EXCEPT !.url = url, !.pc = "done",
                                  !.response = ValidationError]]
  /\ UNCHANGED <<clock, clockAt, origin, feedCache, respCache, ttlVars, convVars, parseVars, validVars>>

\* Time passes; the origin answers with what is published at the new time.
TickStale ==
  /\ clockAt < Len(StaleClockTimes)
  /\ clockAt' = clockAt + 1
  /\ clock' = StaleClockTimes[clockAt + 1]
  /\ origin' = OriginAt(StaleClockTimes[clockAt + 1])
  /\ req' = [i \in StaleRequests |->
               IF req[i].pc \in {"new", "done"} \/ Has(req[i].log, "tick")
                 THEN req[i]
                 ELSE [req[i] EXCEPT !.log = <<"tick">> \o req[i].log]]
  /\ UNCHANGED <<feedCache, respCache, ttlVars, convVars, parseVars, validVars>>

NextStale ==
  \/ \E i \in StaleRequests : ReceiveStale(i)
  \/ \E i \in StaleRequests : HandlerMatch(i)
  \/ \E i \in StaleRequests : FeedMatch(i)
  \/ \E i \in StaleRequests : Fetch(i)
  \/ \E i \in StaleRequests : FeedPut(i)
  \/ \E i \in StaleRequests : Parse(i)
  \/ \E i \in StaleRequests : RespPut(i)
  \/ TickStale

SpecStale == InitStale /\ [][NextStale]_vars

(***************************************************************************)
(* Properties of the cache scheduler (checked under SpecTtl).              *)
(***************************************************************************)

\* The calendar day the publisher is next expected to publish on: the first
\* Monday-to-Friday day strictly after day.
FirstWeekdayAfter(day) ==
  CHOOSE d \in (day + 1) .. (day + 3) :
    /\ getDay(d) \in 1 .. 5
    /\ \A e \in (day + 1) .. (d - 1) : getDay(e) \in {0, 6}

\* 15:50:00.000 wall-clock time on a local day, as local civil fields.
CutoffFields(day) == [day |-> day, sec |-> 15 * 3600 + 50 * 60, ms |-> 0]

\* The whole seconds from instant t to a later instant c that has no
\* millisecond part.
SecondsUntil(t, c) == (c.s - t.s) - (IF t.ms > 0 THEN 1 ELSE 0)

FridayThenWeekend ==
  /\ tPc = "called"
  /\ getDay(TZDate(tLm).day) = 5
  /\ TZDate(tNow).day - TZDate(tLm).day \in {1, 2}

\* C1: when lastModified falls on a Friday (Europe/Berlin) and now on the
\* Saturday or Sunday after it, the result is the whole seconds from now to
\* the following Monday 15:50 local time: the cutoff is on a Monday, not on
\* the Saturday, and the result is not the 60-second fallback.
C1_WeekendWindow ==
  FridayThenWeekend =>
    /\ TZDate(tCutoff) = CutoffFields(TZDate(tLm).day + 3)
    /\ getDay(TZDate(tCutoff).day) = 1
    /\ tTtl = SecondsUntil(tNow, tCutoff)
    /\ tTtl # ShortTtl

C1_Witness ==
  /\ FridayThenWeekend
  /\ getDay(TZDate(tNow).day) = 0
  /\ tTtl > SecondsPerDay

\* C2: for every lastModified the cutoff is 15:50 local time on the first
\* Monday-to-Friday day strictly after lastModified's local date; before the
\* cutoff the result is the whole seconds from now to the cutoff; a later
\* call with the same lastModified computes the same cutoff.
C2_CutoffFromLastModified ==
  /\ [](tPc = "called" =>
          /\ TZDate(tCutoff) = CutoffFields(FirstWeekdayAfter(TZDate(tLm).day))
          /\ (Before(tNow, tCutoff) => tTtl = SecondsUntil(tNow, tCutoff)))
  /\ [][(tPc = "idle" /\ tCutoff # NoInstant /\ tPc' = "called")
          => tCutoff' = tCutoff]_vars

C2_Witness ==
  /\ tPc = "called"
  /\ isWeekend(TZDate(tLm).day)
  /\ Before(tNow, tCutoff)
  /\ TZDate(tNow).day = TZDate(tCutoff).day
  /\ tTtl > 0

\* C3: when now is at or after the cutoff derived from lastModified, the
\* result is exactly 60 seconds.
C3_ShortTtlAfterCutoff ==
  (/\ tPc = "called"
   /\ ~Before(tNow, FromLocal(FirstWeekdayAfter(TZDate(tLm).day),
                               15 * 3600 + 50 * 60, 0)))
    => tTtl = 60

C3_Witness ==
  /\ tPc = "called"
  /\ tNow = FromLocal(FirstWeekdayAfter(TZDate(tLm).day), 15 * 3600 + 50 * 60, 0)
  /\ tTtl = 60

(***************************************************************************)
(* Properties of the conversions (checked under SpecConv).                 *)
(***************************************************************************)

\* The rate of a currency in a table whose anchor EUR is implicit.
RateOf(table, code) ==
  IF code = "EUR" THEN One
  ELSE IF code \in DOMAIN table THEN table[code]
  ELSE NaN

\* lo / d <= v <= hi / d, for a positive finite number v.
Within(v, lo, hi, d) ==
  /\ v.k = "fin"
  /\ ~v.neg
  /\ v.e <= 0
  /\ lo * Pow2(0 - v.e) <= v.m * d
  /\ v.m * d <= hi * Pow2(0 - v.e)

ScenarioTable == [c \in {"USD", "GBP"} |-> IF c = "USD" THEN Number(UsdRate) ELSE Number(GbpRate)]

\* C8: the rebased table for source S has rates[S] equal to the amount
\* exactly, for every S of the latest endpoint and every amount.
C8_RebaseIdentity ==
  cPc = "latest" => NumEq(cRates[cFrom], cAmount)

\* C9: the rebased table maps every currency C of the enumeration, and the
\* anchor EUR with rate 1, to (rate[C] / rate[S]) * amount, dividing before
\* multiplying; on {USD: 1.0847, GBP: 0.8465} with S = USD and amount 100 it
\* gives USD = 100, EUR close to 92.19 and GBP close to 78.06.
C9_RebaseToOne ==
  cPc = "latest" =>
    /\ \A C \in Range(currencyCodeSchema) :
         cRates[C] = FMul(FDiv(RateOf(cData, C), RateOf(cData, cFrom)), cAmount)
    /\ (cData = ScenarioTable /\ cFrom = "USD" /\ cAmount = FromInt(100)) =>
         /\ cRates["USD"] = FromInt(100)
         /\ Within(cRates["EUR"], 9209, 9229, 100)
         /\ Within(cRates["GBP"], 7796, 7816, 100)

C9_Witness ==
  /\ cPc = "latest"
  /\ cData = ScenarioTable
  /\ cFrom = "USD"
  /\ cAmount = FromInt(100)
  /\ cRates["GBP"] # FDiv(FMul(Number(GbpRate), cAmount), Number(UsdRate))
  /\ IsFinite(cRates["GBP"])

\* C10: the single-pair latest result is (rate[T] / rate[S]) * amount, the
\* rate of EUR being 1; on {USD: 1.0847, GBP: 0.8465} the pair (USD, GBP)
\* with amount 1 is close to 0.7806.
C10_Pairwise ==
  cPc = "pair" =>
    /\ cRate = FMul(FDiv(RateOf(cData, cTo), RateOf(cData, cFrom)), cAmount)
    /\ (cData = ScenarioTable /\ cFrom = "USD" /\ cTo = "GBP" /\ cAmount = One) =>
         Within(cRate, 7796, 7816, 10000)

C10_Witness ==
  /\ cPc = "pair"
  /\ cData = ScenarioTable
  /\ cFrom = "USD"
  /\ cTo = "GBP"
  /\ cAmount = FromInt(100)
  /\ Within(cRate, 7796, 7816, 100)

\* Two finite numbers that differ by rounding only: equal zeros, or of one
\* sign and within a few units in the last place of each other.
Close(x, y) ==
  /\ x.k = "fin"
  /\ y.k = "fin"
  /\ \/ IsZero(x) /\ IsZero(y)
     \/ /\ x.neg = y.neg
        /\ LET e == IF x.e <= y.e THEN x.e ELSE y.e
               X == x.m * Pow2(x.e - e)
               Y == y.m * Pow2(y.e - e)
               diff == IF X >= Y THEN X - Y ELSE Y - X
           IN diff * Pow2(Precision - 3) <= Max(X, Y)

\* The table lists the currency (or the currency is the anchor) with a
\* positive finite rate.
PositiveRate(table, code) ==
  LET v == RateOf(table, code)
  IN v.k = "fin" /\ v.m > 0 /\ ~v.neg

\* C11: for every pair (S, T) of one rate table and every amount a,
\* pairwise(S, T, a) * pairwise(T, S, a) is a * a up to rounding; with a = 1
\* the product is 1 up to rounding.
C11_Reciprocal ==
  (cPc = "pair" /\ PositiveRate(cData, cFrom) /\ PositiveRate(cData, cTo)) =>
    /\ Close(FMul(cRate, PairRate(cData, cTo, cFrom, cAmount)),
             FMul(cAmount, cAmount))
    /\ cAmount = One => Close(FMul(cRate, PairRate(cData, cTo, cFrom, One)), One)

C11_Witness ==
  /\ cPc = "pair"
  /\ cFrom = "GBP"
  /\ cTo = "JPY"
  /\ cAmount = FromInt(3)
  /\ PositiveRate(cData, cFrom)
  /\ PositiveRate(cData, cTo)
  /\ IsFinite(cRate)
  /\ FMul(cRate, PairRate(cData, cTo, cFrom, cAmount)) # FMul(cAmount, cAmount)

PositiveAmounts == { FromInt(1), FromInt(3), FromInt(100), Number(Dec(5, 1)) }

\* C12: every rate computed for an amount a is the rate computed for the
\* amount 1 multiplied by a, in the pairwise, the rebased and the historical
\* results; and for amounts a, b > 0, pairwise(S, T, a) / a is
\* pairwise(S, T, b) / b up to rounding.
C12_Linearity ==
  /\ cPc = "pair" =>
       /\ cRate = FMul(PairRate(cData, cFrom, cTo, One), cAmount)
       /\ (/\ PositiveRate(cData, cFrom)
           /\ PositiveRate(cData, cTo)
           /\ cAmount \in PositiveAmounts) =>
            \A b \in PositiveAmounts :
              Close(FDiv(cRate, cAmount),
                    FDiv(PairRate(cData, cFrom, cTo, b), b))
  /\ cPc = "latest" =>
       \A C \in Range(currencyCodeSchema) :
         cRates[C] = FMul(LatestRates(cData, cFrom, One)[C], cAmount)
  /\ cPc = "historical" =>
       \A d \in DOMAIN cHist.rate :
         LET unit == HistoricalRates(cSeries, cFrom, cTo, One).rate[d]
         IN cHist.rate[d] = IF unit = Null THEN Null ELSE FMul(unit, cAmount)

C12_Witness ==
  /\ cPc = "latest"
  /\ cFrom = "GBP"
  /\ cAmount = FromInt(100)
  /\ IsFinite(cRates["JPY"])
  /\ cRates["JPY"] # LatestRates(cData, cFrom, One)["JPY"]
  /\ cRates["JPY"] # FDiv(FMul(RateOf(cData, "JPY"), cAmount), RateOf(cData, "GBP"))

\* No two entries of the series have the same date.
DistinctDates(series) ==
  \A j, k \in 1 .. Len(series) : j # k => series[j].date # series[k].date

Absent(table, code) == code # "EUR" /\ code \notin DOMAIN table

\* The currency has a finite rate other than zero on the date.
PresentNonzero(table, code) ==
  IsFinite(RateOf(table, code)) /\ ~IsZero(RateOf(table, code))

\* C14: in the historical result the entry of a date whose table lacks the
\* rate of S or of T is null; the entry of a date whose table has both rates,
\* neither zero, is the number (rate[T] / rate[S]) * amount.
C14_AbsentIsNull ==
  (cPc = "historical" /\ DistinctDates(cSeries)) =>
    \A k \in 1 .. Len(cSeries) :
      LET table == cSeries[k].rates
          entry == cHist.rate[cSeries[k].date]
      IN /\ (Absent(table, cFrom) \/ Absent(table, cTo)) => entry = Null
         /\ (PresentNonzero(table, cFrom) /\ PresentNonzero(table, cTo)) =>
              /\ entry # Null
              /\ entry = FMul(FDiv(RateOf(table, cTo), RateOf(table, cFrom)), cAmount)

C14_Witness ==
  /\ cPc = "historical"
  /\ cFrom = "USD"
  /\ cTo = "GBP"
  /\ cAmount = One
  /\ Len(cSeries) = 2
  /\ Within(cHist.rate["2024-06-04"], 7796, 7816, 10000)
  /\ Absent(cSeries[2].rates, "GBP")
  /\ cHist.rate["2024-06-03"] = Null

\* A table without the currencies whose rate is zero.
ZeroAsAbsent(table) == [c \in { x \in DOMAIN table : ~IsZero(table[x]) } |-> table[c]]

ZeroAsAbsentSeries(series) ==
  [k \in 1 .. Len(series) |->
     [date |-> series[k].date, rates |-> ZeroAsAbsent(series[k].rates)]]

\* C15: a zero rate is never a divisor: each conversion gives, on a table
\* with zero rates, the result it gives on the table without those
\* currencies, and the latest conversions do not divide by a source rate of
\* zero.
C15_ZeroRateNeverDivides ==
  /\ cPc = "latest" =>
       /\ ~IsZero(RateOf(cData, cFrom))
       /\ cRates = LatestRates(ZeroAsAbsent(cData), cFrom, cAmount)
  /\ cPc = "pair" =>
       /\ ~IsZero(RateOf(cData, cFrom))
       /\ cRate = PairRate(ZeroAsAbsent(cData), cFrom, cTo, cAmount)
  /\ cPc = "historical" =>
       cHist = HistoricalRates(ZeroAsAbsentSeries(cSeries), cFrom, cTo, cAmount)

(***************************************************************************)
(* Properties of the request flow (checked under Spec).                    *)
(***************************************************************************)

\* Whether request i wrote an entry that a cache holds.
WroteFeedCache(i) == \E u \in FeedUrls : ~feedCache[u].empty /\ feedCache[u].writer = i
WroteRespCache(i) == \E u \in SampleUrls : ~respCache[u].empty /\ respCache[u].writer = i

\* Every occurrence of event b in a log comes after an occurrence of a.
Precedes(log, a, b) ==
  \A k \in 1 .. Len(log) : log[k] = b => \E j \in 1 .. (k - 1) : log[j] = a

\* C4: a dataset fetched without a Last-Modified header is stored in the
\* feed cache for the short fallback duration.
C4_NoHeaderShortTtl ==
  \A u \in FeedUrls :
    (~feedCache[u].empty /\ feedCache[u].response.lastModified = NoHeader)
      => feedCache[u].ttl = ShortTtl

\* C5: a cache hit is authoritative.  A request that finds a fresh entry
\* under its URL returns that entry's response and does nothing else: no
\* feed lookup, no fetch, no cache write; it returns the body the request
\* that stored the entry returned.  A feed lookup that finds a fresh entry
\* hands that entry on, without a fetch and without a write to the feed
\* cache.
C5_HitAuthoritative ==
  \A i \in Requests :
    /\ ~req[i].found.empty =>
         /\ req[i].pc = "done"
         /\ req[i].log = <<"respMatch">>
         /\ req[i].response = req[i].found.response
         /\ ~WroteFeedCache(i)
         /\ ~WroteRespCache(i)
         /\ \A j \in Requests :
              req[i].found.writer = j =>
                /\ req[j].url = req[i].url
                /\ req[j].response.body = req[i].response.body
    /\ ~req[i].feedFound.empty =>
         /\ req[i].res = req[i].feedFound.response
         /\ \A k \in 1 .. Len(req[i].log) : req[i].log[k] \notin {"fetch", "feedPut"}
         /\ ~WroteFeedCache(i)

\* A request is served from the response cache after the origin has
\* published a dataset of another date.
C5_Witness ==
  \E i \in Requests :
    /\ ~req[i].found.empty
    /\ req[i].response.status = 200
    /\ origin.ok
    /\ origin.body.time # req[i].response.body.date

\* C6: on a miss one request fetches, then parses, then computes the TTL,
\* then stores the dataset, then converts: the dataset is parsed before it
\* is written to the cache.
C6_MissOrder ==
  \A i \in Requests :
    /\ Precedes(req[i].log, "fetch", "parse") \/ ~req[i].feedFound.empty
    /\ Precedes(req[i].log, "parse", "ttl")
    /\ Precedes(req[i].log, "parse", "feedPut")
    /\ Precedes(req[i].log, "ttl", "feedPut")

\* A currency code of the latest endpoints: a current ECB code, or EUR.
IsCurrentCode(code) == code = "EUR" \/ code \in Range(ecbCurrencyCodeSchema)

UnknownCurrency(url) ==
  \/ ~IsCurrentCode(url.fromCurrency)
  \/ url.route = "pair" /\ ~IsCurrentCode(url.toCurrency)

\* C7: a request with a source or target code outside the enumeration is
\* answered 400 before its handler runs: it fetches nothing, reads no cache
\* and writes no cache.
C7_UnknownCurrencyRejected ==
  \A i \in Requests :
    (req[i].pc # "new" /\ UnknownCurrency(req[i].url)) =>
      /\ req[i].pc = "done"
      /\ req[i].response = ValidationError
      /\ req[i].log = <<>>
      /\ ~WroteFeedCache(i)
      /\ ~WroteRespCache(i)

\* A deprecated code is rejected while another request has filled the caches.
C7_Witness ==
  \E i, j \in Requests :
    /\ req[i].url.toCurrency = "CYP"
    /\ req[i].response.status = 400
    /\ WroteRespCache(j)

\* Request i ran the conversion of its handler.
Converted(i) == \E k \in 1 .. Len(req[i].log) : req[i].log[k] = "convert"

\* The table request i fetched lacks the rate of the currency, or has it as
\* zero, and the currency is not the anchor.
ZeroOrMissing(i, code) ==
  LET table == ParseDaily(req[i].res.body).rates
  IN code # "EUR" /\ (code \notin DOMAIN table \/ IsZero(table[code]))

\* C16: a single-pair latest request whose fetched table lacks the rate of S
\* or of T, or has it as zero, ends in a failure, not in a 200 response.
C16_PairFailsOnMissingRate ==
  \A i \in Requests :
    (/\ req[i].url.route = "pair"
     /\ Converted(i)
     /\ \/ ZeroOrMissing(i, req[i].url.fromCurrency)
        \/ ZeroOrMissing(i, req[i].url.toCurrency))
      => req[i].response.status # 200

(***************************************************************************)
(* Properties of the validators (checked under SpecValid).                 *)
(***************************************************************************)
DeprecatedCodes ==
  {"CYP", "EEK", "HRK", "LTL", "LVL", "MTL", "ROL", "RUB", "SIT", "SKK", "TRL"}

\* C17: the historical route admits the current codes, EUR and the
\* deprecated codes; the two latest routes admit the current codes and EUR
\* only, and answer 400 to a deprecated code.
C17_EndpointCodes ==
  (vOutcome \in {"handler", "400"} /\ QueryValid(vUrl)) =>
    LET admitted == IF vUrl.route = "historical"
                      THEN currencyInformation \cup DeprecatedCodes
                      ELSE currencyInformation
        passes == /\ vUrl.fromCurrency \in admitted
                  /\ vUrl.route # "latest" => vUrl.toCurrency \in admitted
    IN /\ passes => vOutcome = "handler"
       /\ ~passes => vOutcome = "400"

C17_Witness ==
  /\ vUrl.route = "historical"
  /\ vUrl.fromCurrency = "CYP"
  /\ vUrl.toCurrency = "EUR"
  /\ vOutcome = "handler"

(***************************************************************************)
(* Properties of the parsers (checked under SpecParse).                    *)
(***************************************************************************)
\* The codes a feed may list: the current codes without the anchor, and for
\* the historical feed the deprecated codes as well.
FeedCodes(feed) ==
  IF feed = "daily" THEN currencyInformation \ {"EUR"}
  ELSE (currencyInformation \ {"EUR"}) \cup DeprecatedCodes

\* The cube lists of a payload, one per date.
CubeLists(feed, body) ==
  IF feed = "daily" THEN <<body.cubes>>
  ELSE [k \in 1 .. Len(body.days) |-> body.days[k].cubes]

HasForeignCode(feed, body) ==
  \E k \in 1 .. Len(CubeLists(feed, body)) :
    \E i \in 1 .. Len(CubeLists(feed, body)[k]) :
      CubeLists(feed, body)[k][i].currency \notin FeedCodes(feed)

\* C18: a payload that lists a code outside the feed's enumeration, on any
\* of its dates, or that has another shape than the feed's, fails to parse:
\* the parser returns no table.
C18_ForeignCodeFailsParse ==
  (pPc = "parsed" /\ (pBody.shape # pFeed \/ HasForeignCode(pFeed, pBody)))
    => pResult = ParseError

\* Three dates, of which one lists a foreign code and two parse on their own.
C18_Witness ==
  /\ pPc = "parsed"
  /\ pFeed = "historical"
  /\ Len(pBody.days) = 3
  /\ Cardinality({ k \in 1 .. 3 : DayIsValid(pBody.days[k]) }) = 2
  /\ HasForeignCode(pFeed, pBody)
  /\ pResult = ParseError

\* The rate tables of a parser result, one per date.
TablesOf(feed, result) ==
  IF feed = "daily" THEN <<result.rates>>
  ELSE [k \in 1 .. Len(result.rates) |-> result.rates[k].rates]

\* C19: every rate of every table the parser returns is a positive number.
C19_RatesPositive ==
  (pPc = "parsed" /\ pResult # ParseError) =>
    \A k \in 1 .. Len(TablesOf(pFeed, pResult)) :
      \A c \in DOMAIN TablesOf(pFeed, pResult)[k] :
        LET v == TablesOf(pFeed, pResult)[k][c]
        IN v.k = "fin" /\ v.m > 0 /\ ~v.neg

\* The list in the order a permutation of its indices gives.
Permuted(list, perm) == [i \in 1 .. Len(list) |-> list[perm[i]]]

\* The payloads that list, date by date, the cubes of the payload in another
\* order.
Reorderings(feed, body) ==
  IF feed = "daily"
    THEN { [body EXCEPT !.cubes = Permuted(body.cubes, perm)] :
             perm \in Permutations(1 .. Len(body.cubes)) }
    ELSE UNION { { [body EXCEPT !.days[k].cubes = Permuted(body.days[k].cubes, perm)] :
                     perm \in Permutations(1 .. Len(body.days[k].cubes)) } :
                 k \in 1 .. Len(body.days) }

ParseFeed(feed, body) ==
  IF feed = "daily" THEN ParseDaily(body) ELSE ParseHistorical(body)

\* C20: a payload and every reordering of the cubes within its dates,
\* repeated codes included, parse to the same tables.
C20_OrderIndependent ==
  pPc = "parsed" =>
    \A other \in Reorderings(pFeed, pBody) : ParseFeed(pFeed, other) = pResult

\* The dates of a list run from the newest to the oldest.
NewestFirst(dates) ==
  \A k \in 1 .. (Len(dates) - 1) : DateRank(dates[k]) >= DateRank(dates[k + 1])

\* C21: whatever the order of the dates in the payload, the series the
\* historical parser returns has the payload's dated entries from the newest
\* date to the oldest, and the historical response lists its dates in that
\* order.
C21_NewestFirst ==
  (pPc = "parsed" /\ pFeed = "historical" /\ pResult # ParseError) =>
    LET series == pResult.rates
        dates == [k \in 1 .. Len(series) |-> series[k].date]
        response == HistoricalRates(series, "USD", "EUR", One)
    IN /\ Len(series) = Len(pBody.days)
       /\ \A d \in Range(DateOrder) :
            Cardinality({ k \in 1 .. Len(series) : series[k].date = d })
              = Cardinality({ k \in 1 .. Len(pBody.days) : pBody.days[k].time = d })
       /\ NewestFirst(dates)
       /\ NewestFirst(response.dates)
       /\ Range(response.dates) = Range(dates)

\* A payload of three dates, oldest first.
C21_Witness ==
  /\ pPc = "parsed"
  /\ pFeed = "historical"
  /\ pResult # ParseError
  /\ Len(pBody.days) = 3
  /\ pBody.days[1].time = "2024-05-31"
  /\ pBody.days[2].time = "2024-06-03"
  /\ pBody.days[3].time = "2024-06-04"
  /\ pResult.rates[1].date = "2024-06-04"
  /\ pResult.rates[3].date = "2024-05-31"

ListsCode(feed, body, code) ==
  \E k \in 1 .. Len(CubeLists(feed, body)) :
    \E i \in 1 .. Len(CubeLists(feed, body)[k]) :
      CubeLists(feed, body)[k][i].currency = code

\* C29: no table the parsers return lists the anchor EUR, and a payload that
\* lists it fails to parse; the handlers take the rate of EUR as 1, so a
\* conversion from EUR to T with amount 1 gives the table's rate of T, in
\* the latest conversions (on a daily table) and in the historical one.
C29_AnchorSynthesized ==
  pPc = "parsed" =>
    /\ ListsCode(pFeed, pBody, "EUR") => pResult = ParseError
    /\ pResult # ParseError =>
         \A k \in 1 .. Len(TablesOf(pFeed, pResult)) :
           LET table == TablesOf(pFeed, pResult)[k]
           IN /\ "EUR" \notin DOMAIN table
              /\ \A T \in DOMAIN table :
                   PositiveRate(table, T) =>
                     IF pFeed = "daily"
                       THEN /\ PairRate(table, "EUR", T, One) = table[T]
                            /\ LatestRates(table, "EUR", One)[T] = table[T]
                            /\ LatestRates(table, "EUR", One)["EUR"] = One
                       ELSE HistoricalRate(table, "EUR", T, One) = table[T]

C29_Witness ==
  /\ pPc = "parsed"
  /\ pFeed = "historical"
  /\ pResult # ParseError
  /\ \E k \in 1 .. Len(pResult.rates) :
       /\ "CYP" \in DOMAIN pResult.rates[k].rates
       /\ HistoricalRate(pResult.rates[k].rates, "EUR", "CYP", One) = Number(Dec(5842, 4))

Count(log, event) == Cardinality({ k \in 1 .. Len(log) : log[k] = event })

FetchErrors == { FetchFailed(u) : u \in FeedUrls } \cup {FetchRejected}

\* The request ended in the fetch of the feed client.
FetchDidFail(i) ==
  /\ req[i].pc = "done"
  /\ req[i].log # <<>>
  /\ req[i].log[Len(req[i].log)] = "fetch"

\* C22: when the origin does not answer with success, the feed client throws
\* an error of the fetch, which is none of the errors of the parse; it has
\* fetched once and not again; nothing catches the error, so the request
\* ends with it (status 500) and has written no cache entry.  An error of
\* the parse comes from the parse only.
C22_FetchErrorPropagates ==
  \A i \in Requests :
    /\ Count(req[i].log, "fetch") <= 1
    /\ FetchDidFail(i) =>
         /\ req[i].thrown \in FetchErrors
         /\ req[i].thrown # ZodError
         /\ req[i].response = InternalError
         /\ Count(req[i].log, "fetch") = 1
         /\ Count(req[i].log, "feedPut") = 0
         /\ Count(req[i].log, "respPut") = 0
    /\ req[i].thrown \in FetchErrors => FetchDidFail(i)
    /\ req[i].thrown = ZodError => req[i].log[Len(req[i].log)] = "parse"
    /\ req[i].pc = "fetch" => req[i].thrown = NoError

C22_Witness ==
  \E i, j \in Requests :
    /\ FetchDidFail(i)
    /\ req[i].thrown = FetchFailed("daily")
    /\ req[j].pc = "done"
    /\ req[j].thrown = ZodError

\* What a fetch can have brought: the payload and the header of one answer of
\* the origin.
Datasets ==
  { [body |-> o.body, lastModified |-> o.lastModified] : o \in { x \in SampleOrigins : x.ok } }

\* The request missed the response cache and the feed cache and fetched.
MissedBoth(i) == Has(req[i].log, "fetch") /\ req[i].found.empty /\ req[i].feedFound.empty

\* The request is between two awaits of its handler.
Running(i) == req[i].pc \notin {"new", "done"}

\* The steps of a handler other than the parse, whose only guard is the
\* position of the request.
RequestStep(i) ==
  HandlerMatch(i) \/ FeedMatch(i) \/ Fetch(i) \/ FeedPut(i) \/ RespPut(i)

\* In every state: a running request can take its next step whatever the
\* others do, and a request at its parse holds the one dataset it fetched or
\* read from the feed cache; an entry of either cache is, value and TTL,
\* what one request wrote.
C23_State ==
  /\ \A i \in Requests :
       /\ (Running(i) /\ req[i].pc # "parse") => ENABLED RequestStep(i)
       /\ req[i].pc = "parse" => req[i].res \in Datasets
       /\ IF ~req[i].feedFound.empty
            THEN req[i].res = req[i].feedFound.response /\ req[i].res \in Datasets
            ELSE Has(req[i].log, "ttl") => req[i].res \in Datasets
  /\ \A u \in DOMAIN respCache :
       ~respCache[u].empty =>
         LET w == respCache[u].writer
         IN /\ req[w].url = u
            /\ Has(req[w].log, "respPut")
            /\ respCache[u].response = req[w].response
            /\ respCache[u].ttl = req[w].response.maxAge
  /\ \A f \in DOMAIN feedCache :
       ~feedCache[f].empty =>
         LET w == feedCache[f].writer
         IN /\ Has(req[w].log, "feedPut")
            /\ feedCache[f].response = req[w].res
            /\ feedCache[f].ttl = req[w].cacheTtl

\* In every step: the parse of a request computes its response from the
\* dataset the request holds, and the response stays as it is from then on;
\* a put replaces the entry under its key by the value and the TTL of the
\* request that puts, and leaves the other keys alone.
C23_Step ==
  \A i \in Requests :
    /\ (req[i].pc = "parse" /\ req'[i].pc = "respPut") =>
         /\ ParseDaily(req[i].res.body) # ParseError
         /\ req'[i].response =
              OkResponse(req[i].url, ParseDaily(req[i].res.body),
                         req[i].res.lastModified, clock)
    /\ req[i].pc \in {"respPut", "done"} => req'[i].response = req[i].response
    /\ req[i].pc \in {"feedPut", "parse", "respPut", "done"} => req'[i].res = req[i].res
    /\ (req[i].pc = "respPut" /\ req'[i].pc = "done") =>
         respCache' = [respCache EXCEPT ![req[i].url] =
                         Entry(req[i].response, req[i].response.maxAge, clock, i)]
    /\ (req[i].pc = "feedPut" /\ req'[i].pc = "parse") =>
         feedCache' = [feedCache EXCEPT ![FeedUrl(req[i].url)] =
                         Entry(req[i].res, req[i].cacheTtl, clock, i)]

\* C23: requests that miss the same key at the same time all complete, each
\* with a response computed from the dataset it fetched or read, and the key
\* holds the value and the TTL of the request that wrote last.
C23_ColdCacheRace == []C23_State /\ [][C23_Step]_vars

C23_Witness ==
  /\ req[1].pc = "done"
  /\ req[2].pc = "done"
  /\ req[1].url = req[2].url
  /\ MissedBoth(1)
  /\ MissedBoth(2)
  /\ req[1].response.status = 200
  /\ req[2].response.status = 200
  /\ req[1].response # req[2].response
  /\ respCache[req[1].url].writer = 1
  /\ feedCache["daily"].writer = 2

CacheEvents == {"respMatch", "feedMatch", "feedPut", "respPut"}

CacheRoundTrips(log) == Cardinality({ k \in 1 .. Len(log) : log[k] \in CacheEvents })

\* C24: a request fetches at most once, and on each of its two cache keys,
\* the request URL and the feed URL, it looks up at most once and writes at
\* most once, the write only after its lookup of that key: at most four
\* cache round trips.
C24_BoundedRoundTrips ==
  \A i \in Requests :
    /\ Count(req[i].log, "fetch") <= 1
    /\ \A e \in CacheEvents : Count(req[i].log, e) <= 1
    /\ Has(req[i].log, "feedPut") => Precedes(req[i].log, "feedMatch", "feedPut")
    /\ Has(req[i].log, "respPut") => Precedes(req[i].log, "respMatch", "respPut")
    /\ CacheRoundTrips(req[i].log) <= 4

C24_Witness ==
  \E i \in Requests :
    /\ req[i].pc = "done"
    /\ Count(req[i].log, "fetch") = 1
    /\ CacheRoundTrips(req[i].log) = 4

\* The statement of C24 as the specification has it: at most one fetch and
\* at most one cache round trip.
C24_OneCacheRoundTrip ==
  \A i \in Requests :
    /\ Count(req[i].log, "fetch") <= 1
    /\ CacheRoundTrips(req[i].log) <= 1

\* The request computed its response itself from a feed that carries a
\* Last-Modified header.
ComputedWithLastModified(i) ==
  /\ req[i].response.status = 200
  /\ req[i].found.empty
  /\ req[i].res.lastModified # NoHeader

C26_State ==
  \A i \in Requests :
    (req[i].pc = "done" /\ ComputedWithLastModified(i)) =>
      /\ req[i].response.lastModified = req[i].res.lastModified
      /\ req[i].response.maxAge >= ShortTtl
      /\ Has(req[i].log, "respPut")
      /\ ~respCache[req[i].url].empty

C26_Step ==
  \A i \in Requests :
    /\ (req[i].pc = "parse" /\ req'[i].pc = "respPut"
          /\ req[i].res.lastModified # NoHeader) =>
         /\ req'[i].response.status = 200
         /\ req'[i].response.maxAge = getEcbCacheTtl(clock, req[i].res.lastModified)
         /\ req'[i].response.lastModified = req[i].res.lastModified
    /\ (req[i].pc = "respPut" /\ req'[i].pc = "done") =>
         /\ respCache'[req[i].url].response = req[i].response
         /\ respCache'[req[i].url].ttl = req[i].response.maxAge
         /\ req'[i].response = req[i].response

\* C26: a latest response that a handler computes from a feed with a
\* Last-Modified header has, as max-age and s-maxage, the result of the
\* scheduler for the time of the computation and that header, carries the
\* header as its own Last-Modified, and is stored under the URL of the
\* request.
C26_LatestResponseTtl == []C26_State /\ [][C26_Step]_vars

C26_Witness ==
  \E i, j \in Requests :
    /\ req[i].pc = "done"
    /\ req[j].pc = "done"
    /\ req[i].url.route = "latest"
    /\ req[j].url.route = "pair"
    /\ ComputedWithLastModified(i)
    /\ ComputedWithLastModified(j)
    /\ req[i].response.maxAge \notin {ShortTtl, ResponseTtlWithoutLastModified}
    /\ respCache[req[i].url].response = req[i].response
    /\ respCache[req[j].url].response = req[j].response

\* The body names the source and the target of the URL.
BodyIsFor(body, url) ==
  /\ body.from = url.fromCurrency
  /\ url.route = "pair" => body.to = url.toCurrency

C28_State ==
  /\ \A u \in DOMAIN respCache :
       ~respCache[u].empty =>
         /\ req[respCache[u].writer].url = u
         /\ BodyIsFor(respCache[u].response.body, u)
  /\ \A i \in Requests :
       /\ ~req[i].found.empty =>
            /\ req[req[i].found.writer].url = req[i].url
            /\ req[i].found.writer # i
            /\ req[i].pc = "done"
            /\ req[i].response = req[req[i].found.writer].response
       /\ (req[i].pc = "done" /\ req[i].response.status = 200) =>
            BodyIsFor(req[i].response.body, req[i].url)

C28_Step ==
  \A i \in Requests :
    (req[i].pc = "match" /\ req'[i].pc # "match" /\ ~req'[i].found.empty) =>
      req'[i].found = respCache[req[i].url]

\* C28: the response cache is keyed by the whole URL: an entry was written
\* by a request for the URL it is stored under, a request that is answered
\* from the cache gets the entry of its own URL, and every successful
\* response names the source and the target of its request.
C28_CachedPerUrl == []C28_State /\ [][C28_Step]_vars

C28_Witness ==
  /\ req[1].pc = "done"
  /\ req[2].pc = "done"
  /\ req[1].url = Url("latest", "USD", NoCurrency, NoAmount)
  /\ req[2].url = Url("latest", "USD", NoCurrency, Dec(100, 0))
  /\ Has(req[1].log, "respPut")
  /\ Fresh(respCache[req[1].url], clock)
  /\ req[2].found.empty
  /\ Has(req[2].log, "respPut")
  /\ ~Has(req[2].log, "fetch")
  /\ respCache[req[1].url].response.body # respCache[req[2].url].response.body

\* The request computed a historical response itself.
ComputedHistorical(i) ==
  /\ req[i].url.route = "historical"
  /\ req[i].response.status = 200
  /\ req[i].found.empty

C25_State ==
  \A i \in Requests :
    ComputedHistorical(i) =>
      /\ req[i].response.lastModified # NoHeader
      /\ req[i].res.lastModified # NoHeader =>
           req[i].response.lastModified = req[i].res.lastModified
      /\ req[i].pc = "done" => ~respCache[req[i].url].empty

C25_Step ==
  \A i \in Requests :
    /\ (req[i].pc = "parse" /\ req'[i].pc = "respPut"
          /\ req[i].res.lastModified # NoHeader) =>
         req'[i].response.maxAge = getEcbCacheTtl(clock, req[i].res.lastModified)
    /\ (req[i].pc = "respPut" /\ req'[i].pc = "done" /\ ComputedHistorical(i)) =>
         /\ respCache'[req[i].url].ttl = req[i].response.maxAge
         /\ respCache'[req[i].url].response = req[i].response

FeedEvents == {"feedMatch", "fetch", "feedPut", "parse"}

C30_State ==
  /\ \A i \in Requests :
       req[i].url = CurrenciesUrl =>
         /\ \A k \in 1 .. Len(req[i].log) : req[i].log[k] \notin FeedEvents
         /\ req[i].res = NoRes
         /\ req[i].thrown = NoError
         /\ (req[i].pc \in {"respPut", "done"} /\ req[i].found.empty) =>
              /\ req[i].response.status = 200
              /\ req[i].response.body = currencyInformation
              /\ req[i].response.maxAge = 86400
         /\ (req[i].pc = "done" /\ req[i].found.empty) =>
              /\ Has(req[i].log, "respPut")
              /\ respCache[CurrenciesUrl].ttl = 86400
              /\ respCache[CurrenciesUrl].response = req[i].response
  /\ \A f \in FeedUrls :
       ~feedCache[f].empty => req[feedCache[f].writer].url # CurrenciesUrl

C30_Step ==
  \A i \in Requests :
    (req[i].url = CurrenciesUrl /\ req'[i] # req[i]) =>
      /\ feedCache' = feedCache
      /\ origin' = origin
      /\ req'[i].pc \in {"respPut", "done"}

\* C30: the handler of /currencies answers a miss with the currency list
\* under max-age and s-maxage 86400, stores the response for that time, and
\* neither reads nor writes the feed cache nor fetches.
C30_CurrenciesCachedForOneDay == []C30_State /\ [][C30_Step]_vars

C30_Witness ==
  /\ req[1].pc = "done"
  /\ req[2].pc = "done"
  /\ req[1].url = CurrenciesUrl
  /\ req[2].url = CurrenciesUrl
  /\ req[1].found.empty
  /\ req[1].log = <<"respMatch", "respPut">>
  /\ req[2].found = respCache[CurrenciesUrl]
  /\ req[2].response.maxAge = 86400
  /\ clockAt = Len(ClockTimes)

\* The result as the two arguments alone determine it.
TtlByArguments(now, lastModified) ==
  LET cutoff == FromLocal(FirstWeekdayAfter(TZDate(lastModified).day),
                          15 * 3600 + 50 * 60, 0)
  IN IF Before(now, cutoff) THEN SecondsUntil(now, cutoff) ELSE 60

\* C31: the result of a call is determined by its two arguments: it is what
\* they alone give, whatever the system clock reads, and the same call made
\* again in the state after the call gives the same result.
C31_FunctionOfArguments ==
  tPc = "called" =>
    /\ tTtl = TtlByArguments(tNow, tLm)
    /\ tTtl = getEcbCacheTtl(tNow, tLm)
    /\ clock \in AmbientClocks

C31_Witness ==
  /\ tPc = "called"
  /\ Before(tNow, tCutoff)
  /\ ~Before(clock, tCutoff)
  /\ tTtl > ShortTtl

\* The difference of two wall-clock readings of Europe/Berlin, in seconds.
WallClockSeconds(from, to) ==
  (TZDate(to).day - TZDate(from).day) * SecondsPerDay + (TZDate(to).sec - TZDate(from).sec)

\* C32: the cutoff reads 15:50:00.000 on the Europe/Berlin wall clock, on the
\* first weekday after lastModified's local date, also when a daylight-saving
\* transition lies between lastModified and the cutoff; before the cutoff
\* the result is the elapsed whole seconds from now to the cutoff, which is
\* the wall-clock difference less the change of the UTC offset in between.
C32_DstCorrect ==
  tPc = "called" =>
    /\ TZDate(tCutoff) = CutoffFields(FirstWeekdayAfter(TZDate(tLm).day))
    /\ tCutoff.s % 3600 = 50 * 60
    /\ Before(tNow, tCutoff) =>
         /\ tTtl = (tCutoff.s - tNow.s) - (IF tNow.ms > 0 THEN 1 ELSE 0)
         /\ tCutoff.s - tNow.s =
              WallClockSeconds(tNow, tCutoff)
                - (BerlinOffset(tCutoff.s) - BerlinOffset(tNow.s))

\* A transition lies between now and the cutoff, and between lastModified
\* and the cutoff.
C32_Witness ==
  /\ tPc = "called"
  /\ Before(tNow, tCutoff)
  /\ tNow.ms = 0
  /\ BerlinOffset(tLm.s) = 7200
  /\ BerlinOffset(tNow.s) = 7200
  /\ BerlinOffset(tCutoff.s) = 3600
  /\ tTtl = WallClockSeconds(tNow, tCutoff) + 3600

\* C33: the result is never less than 1.
C33_AtLeastOneSecond ==
  tPc = "called" => tTtl >= 1

\* C34: when now is not before lastModified the result is at most four days
\* of seconds, and a result of more than three days comes from a
\* lastModified on a Friday, whose cutoff is the Monday after.
C34_AtMostFourDays ==
  (tPc = "called" /\ ~Before(tNow, tLm)) =>
    /\ tTtl <= 345600
    /\ tTtl > 3 * SecondsPerDay =>
         /\ getDay(TZDate(tLm).day) = 5
         /\ getDay(TZDate(tCutoff).day) = 1

C34_Witness ==
  /\ tPc = "called"
  /\ tNow = tLm
  /\ getDay(TZDate(tLm).day) = 5
  /\ TZDate(tLm).sec < 3 * 3600
  /\ tTtl > 3 * SecondsPerDay + 13 * 3600

\* The request ended in an error: 400 of a validator, or 500 of what the
\* fetch or the parse threw.
EndedInError(i) == req[i].pc = "done" /\ req[i].response.status \in {400, 500}

\* C35: a request that ends in an error has written neither cache.
C35_ErrorLeavesCachesUnchanged ==
  \A i \in Requests :
    EndedInError(i) =>
      /\ ~Has(req[i].log, "feedPut")
      /\ ~Has(req[i].log, "respPut")
      /\ \A f \in FeedUrls : ~feedCache[f].empty => feedCache[f].writer # i

\* The datasets that the daily parser accepts.
ParsedDatasets == { d \in Datasets : ParseDaily(d.body) # ParseError }

\* C36: every entry of the response cache is a response of status 200 that
\* its writer computed, without a throw, from a dataset that was fetched or
\* read and that parsed; no request is answered from the cache with
\* anything else, and a request that ended in an error stored nothing under
\* a request URL.
C36_OnlySuccessCached ==
  /\ \A u \in DOMAIN respCache :
       ~respCache[u].empty =>
         LET w == respCache[u].writer
         IN /\ respCache[u].response.status = 200
            /\ req[w].thrown = NoError
            /\ Has(req[w].log, "convert")
            /\ req[w].res \in ParsedDatasets
  /\ \A i \in Requests :
       /\ ~req[i].found.empty => req[i].found.response.status = 200
       /\ EndedInError(i) => (req[i].found.empty /\ ~Has(req[i].log, "respPut"))

C36_Witness ==
  /\ req[1].pc = "done"
  /\ req[2].pc = "done"
  /\ req[1].response.status = 200
  /\ req[1].url = req[2].url
  /\ respCache[req[1].url].writer = 1
  /\ req[2].thrown = ZodError
  /\ req[2].response = InternalError

\* The currencies of the enumeration that the table does not list.
Omitted(table) == Range(currencyCodeSchema) \ ((DOMAIN table) \cup {"EUR"})

\* C38: the keys of the rebased table are the codes of currencyCodeSchema,
\* EUR among them, no more and no fewer, in the object and in its JSON; a
\* code the table does not list is there with NaN, which the JSON gives as
\* null.
C38_KeysAreTheEnumeration ==
  cPc = "latest" =>
    /\ DOMAIN cRates = Range(currencyCodeSchema)
    /\ DOMAIN JsonRates(cRates) = Range(currencyCodeSchema)
    /\ "EUR" \in DOMAIN cRates
    /\ \A C \in Omitted(cData) :
         /\ cRates[C].k = "nan"
         /\ JsonRates(cRates)[C] = Null

C38_Witness ==
  /\ cPc = "latest"
  /\ DOMAIN cData = {"USD", "GBP"}
  /\ cFrom = "USD"
  /\ "JPY" \in Omitted(cData)
  /\ cRates["JPY"].k = "nan"
  /\ IsFinite(cRates["GBP"])
  /\ IsFinite(cRates["EUR"])

\* An entry keeps to the cutoff of its dataset: written before the cutoff it
\* expires no later than the cutoff, written at or after it it expires
\* within 60 seconds.
KeepsToCutoff(entry) ==
  LET cutoff == cutoffAfterLastModified(entry.response.lastModified)
  IN IF Before(entry.storedAt, cutoff)
       THEN ~Before(cutoff, AddSeconds(entry.storedAt, entry.ttl))
       ELSE entry.ttl <= 60

\* The entries of both caches.
AllEntries ==
  { feedCache[f] : f \in DOMAIN feedCache } \cup { respCache[u] : u \in DOMAIN respCache }

\* The entry holds, or was computed from, the dataset published last.
FromNewDataset(entry) ==
  entry.response.lastModified = Publication

\* More than 120 seconds have passed since the publication.
LongAfterPublication == clock.s > Publication.s + 120

\* No clock reading separates two steps of the request.
Undelayed(i) == ~Has(req[i].log, "tick")

C37_State ==
  /\ \A entry \in AllEntries :
       (~entry.empty /\ Undelayed(entry.writer)) => KeepsToCutoff(entry)
  /\ (LongAfterPublication /\ \A i \in StaleRequests : Undelayed(i)) =>
       \A entry \in AllEntries :
         (~entry.empty /\ Fresh(entry, clock)) => FromNewDataset(entry)

C37_Step ==
  \A i \in StaleRequests :
    /\ (req[i].pc = "fetch" /\ req'[i].pc = "feedPut") =>
         LET cutoff == cutoffAfterLastModified(origin.lastModified)
         IN IF Before(clock, cutoff)
              THEN ~Before(cutoff, AddSeconds(clock, req'[i].cacheTtl))
              ELSE req'[i].cacheTtl = 60
    /\ (req[i].pc = "parse" /\ req'[i].pc = "respPut") =>
         LET cutoff == cutoffAfterLastModified(req[i].res.lastModified)
         IN IF Before(clock, cutoff)
              THEN ~Before(cutoff, AddSeconds(clock, req'[i].response.maxAge))
              ELSE req'[i].response.maxAge = 60
    /\ (LongAfterPublication /\ (\A j \in StaleRequests : Undelayed(j))
          /\ req[i].pc # "done" /\ req'[i].pc = "done") =>
         /\ req'[i].response.status = 200
         /\ req'[i].response.lastModified = Publication
         /\ req'[i].response.body.date = BodyWed.time

====
